---- MODULE Spec2Model ----
(***************************************************************************)
(* A model of the py-schemas schema protocol: abc_schema.py (the protocol  *)
(* and the default element validation), dataclasses_schema.py (DCSchema)   *)
(* and marshmallow_schema.py (MMSchema), with the translation between the  *)
(* two dialects (from_schema).                                             *)
(*                                                                         *)
(* Python values are records [t, v]: t is the Python type of the value and *)
(* v its repr.  Python types (type hints) are strings.  Mappings (dict,    *)
(* __dict__) are functions from element names to values.                   *)
(***************************************************************************)
EXTENDS Integers, Sequences, FiniteSets, TLC

\* ------------------------------------------------------------------------
\* Bounds of the model
\* ------------------------------------------------------------------------

\* the largest number of elements of a declared schema
MaxFields == 2

\* ------------------------------------------------------------------------
\* Python values
\* ------------------------------------------------------------------------

V(t, v) == [t |-> t, v |-> v]

PyInt(s)   == V("int", s)
PyFloat(s) == V("float", s)
PyStr(s)   == V("str", s)
PyBool(s)  == V("bool", s)
PyList(s)  == V("list", s)
PyDict(s)  == V("dict", s)
PyNone     == V("NoneType", "None")
\* the class list, used as a callable default (default_factory=list, missing=list)
ListClass  == V("class", "list")
DictClass  == V("class", "dict")

\* the three sentinels of the three libraries
MISSING    == V("sentinel", "abc_schema.MISSING")
DC_MISSING == V("sentinel", "dataclasses.MISSING")
MM_missing == V("sentinel", "marshmallow.missing")

\* bool(value): Python truth value.  abc_schema._MISSING_TYPE and
\* dataclasses._MISSING_TYPE define no __bool__ (true like any object);
\* marshmallow.missing defines __bool__ as False.
Truthy(x) ==
  CASE x.t = "int"      -> x.v # "0"
    [] x.t = "float"    -> x.v # "0.0"
    [] x.t = "str"      -> x.v # ""
    [] x.t = "bool"     -> x.v = "True"
    [] x.t = "list"     -> x.v # "[]"
    [] x.t = "dict"     -> x.v # "{}"
    [] x.t = "NoneType" -> FALSE
    [] x.t = "sentinel" -> x # MM_missing
    [] OTHER            -> TRUE

\* callable(value)
Callable(x) == x.t = "class"

IntReprs   == {"0", "1", "2", "5"}
FloatReprs == {"0.0", "1.0", "2.0", "2.2", "5.0"}

\* int(float): truncation
Trunc(s) ==
  CASE s = "0.0" -> "0" [] s = "1.0" -> "1" [] s = "2.0" -> "2"
    [] s = "2.2" -> "2" [] s = "5.0" -> "5" [] OTHER -> "0"

\* a numeric value as the rational it denotes, in tenths (for ==)
Tenths(x) ==
  CASE x.t = "bool" -> (IF x.v = "True" THEN 10 ELSE 0)
    [] x.v \in {"0", "0.0"} -> 0
    [] x.v \in {"1", "1.0"} -> 10
    [] x.v \in {"2", "2.0"} -> 20
    [] x.v = "2.2" -> 22
    [] x.v \in {"5", "5.0"} -> 50
    [] OTHER -> -1

IsNumber(x) == x.t \in {"int", "float", "bool"}

\* a == b in Python: numbers compare by value across int, float and bool
PyEq(a, b) ==
  IF IsNumber(a) /\ IsNumber(b) THEN Tenths(a) = Tenths(b) ELSE a = b

\* results of calls: a returned value or a raised exception
Ok(val) == [kind |-> "ok", val |-> val, exc |-> "", orig |-> "", msg |-> ""]
Raise(exc, orig, msg) ==
  [kind |-> "raise", val |-> PyNone, exc |-> exc, orig |-> orig, msg |-> msg]

\* str(value)
str_of(x) ==
  CASE x.t \in {"int", "float", "str", "bool", "NoneType", "list", "dict"} -> PyStr(x.v)
    [] x.t = "sentinel" -> PyStr("<" \o x.v \o " object>")
    [] OTHER -> PyStr("<class '" \o x.v \o "'>")

\* int(value)
int_of(x) ==
  CASE x.t = "int"   -> Ok(x)
    [] x.t = "float" -> Ok(PyInt(Trunc(x.v)))
    [] x.t = "bool"  -> Ok(PyInt(IF x.v = "True" THEN "1" ELSE "0"))
    [] x.t = "str"   -> IF x.v \in IntReprs THEN Ok(PyInt(x.v))
                        ELSE Raise("ValueError", "", "invalid literal for int()")
    [] OTHER -> Raise("TypeError", "", "int() argument must be a string or a number")

\* float(value)
float_of(x) ==
  CASE x.t = "float" -> Ok(x)
    [] x.t = "int"   -> Ok(PyFloat(x.v \o ".0"))
    [] x.t = "bool"  -> Ok(PyFloat(IF x.v = "True" THEN "1.0" ELSE "0.0"))
    [] x.t = "str"   -> IF x.v \in FloatReprs THEN Ok(PyFloat(x.v))
                        ELSE IF x.v \in IntReprs THEN Ok(PyFloat(x.v \o ".0"))
                        ELSE Raise("ValueError", "", "could not convert string to float")
    [] OTHER -> Raise("TypeError", "", "float() argument must be a string or a number")

\* list(value): a list is copied, a string is split into its characters,
\* the class list is not iterable
list_of(x) ==
  CASE x.t = "list" -> Ok(x)
    [] x.t = "str"  -> Ok(PyList(IF x.v = "" THEN "[]" ELSE "list('" \o x.v \o "')"))
    [] OTHER -> Raise("TypeError", "", "object is not iterable")

\* dict(value): a dict is copied; a non-empty string is no sequence of pairs
dict_of(x) ==
  CASE x.t = "dict" -> Ok(x)
    [] x.t = "list" /\ x.v = "[]" -> Ok(PyDict("{}"))
    [] x.t = "str"  /\ x.v = ""   -> Ok(PyDict("{}"))
    [] x.t \in {"list", "str"} ->
         Raise("ValueError", "", "dictionary update sequence element has wrong length")
    [] OTHER -> Raise("TypeError", "", "object is not iterable")

\* basetype(value) of SchemaTypeAnnotation.validate_internal: the call of the
\* Python class named base.  type(value) returns the class of the value;
\* typing.Any cannot be instantiated.
Construct(base, x) ==
  CASE base = "int"   -> int_of(x)
    [] base = "float" -> float_of(x)
    [] base = "str"   -> Ok(str_of(x))
    [] base = "bool"  -> Ok(PyBool(IF Truthy(x) THEN "True" ELSE "False"))
    [] base = "list"  -> list_of(x)
    [] base = "dict"  -> dict_of(x)
    [] base = "type"  -> Ok(V("class", x.t))
    [] OTHER -> Raise("TypeError", "", "cannot be instantiated")

\* ------------------------------------------------------------------------
\* Python types (type hints)
\* ------------------------------------------------------------------------

\* typing.Type[typing.Any]: the type MMfieldSuper.get_python_type reports
\* for a field class that is not in its table
TypeAny == "typing.Type[typing.Any]"

\* typing.List[a] and typing.Dict[k, v]
MkList(a)    == "typing.List[" \o a \o "]"
MkDict(k, v) == "typing.Dict[" \o k \o ", " \o v \o "]"

\* the types that occur as parameters of containers
ParamTypes == {"int", "str", "typing.Any", TypeAny}

\* typing.get_origin(pt), "None" for a type that is no generic alias
get_origin(pt) ==
  CASE pt = "typing.List" \/ (\E a \in ParamTypes : pt = MkList(a)) -> "list"
    [] pt = "typing.Dict" \/ (\E k, v \in ParamTypes : pt = MkDict(k, v)) -> "dict"
    [] pt = TypeAny -> "type"
    [] OTHER -> "None"

\* typing.get_args(pt): empty for a bare class and for a bare typing alias
get_args(pt) ==
  CASE \E a \in ParamTypes : pt = MkList(a) ->
         <<CHOOSE a \in ParamTypes : pt = MkList(a)>>
    [] \E k, v \in ParamTypes : pt = MkDict(k, v) ->
         LET kv == CHOOSE kv \in ParamTypes \X ParamTypes : pt = MkDict(kv[1], kv[2])
         IN  <<kv[1], kv[2]>>
    [] pt = TypeAny -> <<"typing.Any">>
    [] OTHER -> <<>>

\* basetype = typing.get_origin(pt) or pt
BaseType(pt) == IF get_origin(pt) # "None" THEN get_origin(pt) ELSE pt

\* ------------------------------------------------------------------------
\* abc_schema.SchemaTypeAnnotation
\* ------------------------------------------------------------------------

SchemaTypeAnnotation(required, default) ==
  [required |-> required, default |-> default]

\* SchemaTypeAnnotation.validate_internal, the default element validation
STA_validate_internal(annotation, name, pt, value) ==
  IF ~Truthy(value)
  THEN IF annotation.default # MISSING
       THEN Ok(annotation.default)
       ELSE IF annotation.required
            THEN Raise("ValidationError", "",
                       "required element " \o name \o " must be supplied")
            ELSE Ok(value)
  ELSE LET r == Construct(BaseType(pt), value)
       IN  IF r.kind = "ok" THEN r
           ELSE Raise("ValidationError", r.exc, r.msg)

\* ------------------------------------------------------------------------
\* Mappings, objects, native shapes
\* ------------------------------------------------------------------------

\* d[k] = v on a dict
Put(d, k, v) == [x \in (DOMAIN d) \cup {k} |-> IF x = k THEN v ELSE d[x]]

\* an instance of the class named cls with the given __dict__
Obj(cls, attrs) == [cls |-> cls, attrs |-> attrs]

\* A native shape (a class).  kind "dataclass": a dataclass with the given
\* fields; kind "kwargs": a class whose __init__(**kw) stores kw in __dict__
\* (test_marshmallow_schema.Person); kind "none": no class (__objclass__ None)
Shape(name, kind, fields) == [name |-> name, kind |-> kind, fields |-> fields]
NoShape == Shape("", "none", <<>>)

\* a schema of either dialect: the declared fields (MMSchema.declared_fields;
\* a DCSchema stores nothing but its dataclass) and the bound shape
Schema(dialect, declared, objclass) ==
  [dialect |-> dialect, declared |-> declared, objclass |-> objclass]

\* ------------------------------------------------------------------------
\* dataclasses (the standard library, as dataclasses_schema.py uses it)
\* ------------------------------------------------------------------------

\* dataclasses.Field; metadata.ann is the entry under Ann_meta_key, if any
DCField(name, type, default, default_factory, ann) ==
  [name |-> name, type |-> type, default |-> default,
   default_factory |-> default_factory, metadata |-> [ann |-> ann]]

HasDefault(f) == f.default # DC_MISSING \/ f.default_factory # DC_MISSING

\* factory(): the factories of the model are the classes list and dict
CallFactory(f) ==
  CASE f = ListClass -> PyList("[]") [] f = DictClass -> PyDict("{}") [] OTHER -> PyNone

FieldNames(fields) == {fields[i].name : i \in 1..Len(fields)}

\* the generated __init__ of a dataclass, called as objclass(**kw)
DataclassInit(shape, kw) ==
  LET fs == shape.fields
      attr(i) == IF fs[i].name \in DOMAIN kw THEN kw[fs[i].name]
                 ELSE IF fs[i].default # DC_MISSING THEN fs[i].default
                 ELSE CallFactory(fs[i].default_factory)
  IN  IF \E k \in DOMAIN kw : k \notin FieldNames(fs)
      THEN Raise("TypeError", "", "got an unexpected keyword argument")
      ELSE IF \E i \in 1..Len(fs) : fs[i].name \notin DOMAIN kw /\ ~HasDefault(fs[i])
      THEN Raise("TypeError", "", "missing required positional argument")
      ELSE Ok(Obj(shape.name,
                  [n \in FieldNames(fs) |->
                     attr(CHOOSE i \in 1..Len(fs) : fs[i].name = n)]))

\* objclass(**d) for the shapes of the model
Instantiate(shape, d) ==
  CASE shape.kind = "dataclass" -> DataclassInit(shape, d)
    [] shape.kind = "kwargs"    -> Ok(Obj(shape.name, d))
    [] OTHER -> Raise("TypeError", "", "'NoneType' object is not callable")

\* a list, dict or set instance as a default is refused
MutableDefault(x) == x.t \in {"list", "dict", "set"}

\* dataclasses.make_dataclass(name, fields): refuses a mutable default, and
\* a field without default after a field with a default
make_dataclass(name, fields) ==
  IF \E i \in 1..Len(fields) : MutableDefault(fields[i].default)
  THEN Raise("ValueError", "", "mutable default is not allowed")
  ELSE IF \E i, j \in 1..Len(fields) :
            i < j /\ HasDefault(fields[i]) /\ ~HasDefault(fields[j])
  THEN Raise("TypeError", "", "non-default argument follows default argument")
  ELSE Ok(Shape(name, "dataclass", fields))

\* ------------------------------------------------------------------------
\* dataclasses_schema.DCSchemaElement
\* ------------------------------------------------------------------------

\* a variant that decides required on the field's literal default alone
DCSchemaElement_get_annotation_LiteralOnly(field) ==
  IF field.metadata.ann # <<>>
  THEN [ann |-> field.metadata.ann[1], field |-> field]
  ELSE LET default ==
             IF field.default = DC_MISSING
             THEN IF field.default_factory = DC_MISSING THEN MISSING
                  ELSE field.default_factory
             ELSE field.default
           ann == SchemaTypeAnnotation(field.default = DC_MISSING, default)
       IN  [ann |-> ann, field |-> [field EXCEPT !.metadata.ann = <<ann>>]]

\* DCSchemaElement.get_annotation: the cached annotation, else one computed
\* from the field and cached in its metadata.  Returns the annotation and
\* the field as it is afterwards.
DCSchemaElement_get_annotation(field) ==
  IF field.metadata.ann # <<>>
  THEN [ann |-> field.metadata.ann[1], field |-> field]
  ELSE LET default ==
             IF field.default = DC_MISSING
             THEN IF field.default_factory = DC_MISSING THEN MISSING
                  ELSE field.default_factory
             ELSE field.default
           ann == SchemaTypeAnnotation(default = MISSING, default)
       IN  [ann |-> ann, field |-> [field EXCEPT !.metadata.ann = <<ann>>]]

\* a variant that passes every default on as the literal default
DCSchemaElement_from_schema_element_Literal(ann, name, pt) ==
  LET default0 == IF ann.default = MISSING THEN DC_MISSING ELSE ann.default
  IN  DCField(name, pt, default0, DC_MISSING, <<ann>>)

\* DCSchemaElement.from_schema_element, given what the foreign element
\* reports: its annotation, name and python type
DCSchemaElement_from_schema_element(ann, name, pt) ==
  LET default0 == IF ann.default = MISSING THEN DC_MISSING ELSE ann.default
      default  == IF Callable(default0) THEN DC_MISSING ELSE default0
      default_factory == IF Callable(default0) THEN default0 ELSE DC_MISSING
  IN  DCField(name, pt, default, default_factory, <<ann>>)

\* ------------------------------------------------------------------------
\* marshmallow_schema.MMfieldSuper, MMmappingSuper, MMlistSuper
\* ------------------------------------------------------------------------

\* A marshmallow field: its class, its inner fields (List: <<inner>>,
\* Dict and Mapping: <<key_field, value_field>>), required, missing (the
\* load default), default (the dump default), and its metadata
MMField(name, cls, inner, required, missing, default, ann) ==
  [name |-> name, cls |-> cls, inner |-> inner, required |-> required,
   missing |-> missing, default |-> default, metadata |-> [ann |-> ann]]

\* None where a field is expected
NoField == MMField("", "None", <<>>, FALSE, MM_missing, MM_missing, <<>>)

\* MMfieldSuper.FieldType_to_PythonType.get(cls, typing.Type[typing.Any])
FieldType_to_PythonType(cls) ==
  CASE cls = "Integer"   -> "int"
    [] cls = "Float"     -> "float"
    [] cls = "Decimal"   -> "decimal.Decimal"
    [] cls = "Boolean"   -> "bool"
    [] cls = "Email"     -> "str"
    [] cls = "Str"       -> "str"
    [] cls = "DateTime"  -> "datetime.datetime"
    [] cls = "Time"      -> "datetime.time"
    [] cls = "Date"      -> "datetime.date"
    [] cls = "TimeDelta" -> "datetime.timedelta"
    [] cls = "Mapping"   -> "typing.Mapping"
    [] cls = "Dict"      -> "typing.Dict"
    [] cls = "List"      -> "typing.List"
    [] OTHER             -> TypeAny

\* MMfieldSuper.PythonType_to_FieldType.get(basetype): the reversed table
\* (Str overwrites Email) with dict and list added; "None" for no entry
PythonType_to_FieldType(basetype) ==
  CASE basetype = "int"                -> "Integer"
    [] basetype = "float"              -> "Float"
    [] basetype = "decimal.Decimal"    -> "Decimal"
    [] basetype = "bool"               -> "Boolean"
    [] basetype = "str"                -> "Str"
    [] basetype = "datetime.datetime"  -> "DateTime"
    [] basetype = "datetime.time"      -> "Time"
    [] basetype = "datetime.date"      -> "Date"
    [] basetype = "datetime.timedelta" -> "TimeDelta"
    [] basetype = "typing.Mapping"     -> "Mapping"
    [] basetype = "typing.Dict"        -> "Dict"
    [] basetype = "typing.List"        -> "List"
    [] basetype = "dict"               -> "Dict"
    [] basetype = "list"               -> "List"
    [] OTHER                           -> "None"

\* MMfieldSuper.get_python_type, as MMmappingSuper and MMlistSuper refine it
RECURSIVE MM_get_python_type(_)
MM_get_python_type(field) ==
  LET inner_type(i) == IF field.inner[i].cls # "None"
                       THEN MM_get_python_type(field.inner[i]) ELSE TypeAny
  IN  CASE field.cls \in {"Mapping", "Dict"} -> MkDict(inner_type(1), inner_type(2))
        [] field.cls = "List" -> MkList(inner_type(1))
        [] OTHER -> FieldType_to_PythonType(field.cls)

\* a variant that reports the field's missing as it is, the library's
\* sentinel not converted to MISSING
MM_get_annotation_Unconverted(field) ==
  SchemaTypeAnnotation(field.required, field.missing)

\* MMfieldSuper.get_annotation
MM_get_annotation(field) ==
  SchemaTypeAnnotation(field.required,
                       IF field.missing = MM_missing THEN MISSING ELSE field.missing)

\* marshmallow.fields.Field.__init__(required, missing, default): a
\* required field must not set missing
FieldInit(cls, inner, required, missing, default) ==
  IF required /\ missing # MM_missing
  THEN Raise("ValueError", "", "'missing' must not be set for required fields.")
  ELSE Ok(MMField("", cls, inner, required, missing, default, <<>>))

\* MMfieldSuper.from_python_type with MMmappingSuper._type_factory and
\* MMlistSuper._type_factory: Ok(NoField) is the result None
RECURSIVE MM_from_python_type(_, _, _)
MM_from_python_type(pt, required, default0) ==
  LET basetype    == BaseType(pt)
      field_class == PythonType_to_FieldType(basetype)
      default     == IF default0 = MISSING THEN MM_missing ELSE default0
      args        == get_args(pt)
      \* cls.from_python_type(typing.get_args(pt)[i]): required and
      \* default take their declared defaults True and mm.missing
      sub(i)      == MM_from_python_type(args[i], TRUE, MM_missing)
  IN  CASE field_class = "None" -> Ok(NoField)
        [] field_class \in {"Dict", "Mapping"} ->
             IF Len(args) < 1 THEN Raise("IndexError", "", "tuple index out of range")
             ELSE IF sub(1).kind = "raise" THEN sub(1)
             ELSE IF Len(args) < 2 THEN Raise("IndexError", "", "tuple index out of range")
             ELSE IF sub(2).kind = "raise" THEN sub(2)
             ELSE FieldInit(field_class, <<sub(1).val, sub(2).val>>,
                            required, default, default)
        [] field_class = "List" ->
             IF Len(args) < 1 THEN Raise("IndexError", "", "tuple index out of range")
             ELSE IF sub(1).kind = "raise" THEN sub(1)
             ELSE IF required /\ default # MM_missing
             THEN FieldInit(field_class, <<>>, required, default, default)
             ELSE IF sub(1).val.cls = "None"
             THEN Raise("ValueError", "",
                        "The list elements must be a subclass or instance of FieldABC.")
             ELSE FieldInit(field_class, <<sub(1).val>>, required, default, default)
        [] OTHER -> FieldInit(field_class, <<>>, required, default, default)

\* MMfieldSuper.from_schema_element, given what the foreign element
\* reports: its annotation and python type
MM_from_schema_element(ann, pt) ==
  LET mmf == MM_from_python_type(pt, ann.required, ann.default)
  IN  IF mmf.kind = "raise" THEN mmf
      ELSE IF mmf.val.cls = "None"
      THEN Raise("ValueError", "", "Cannot determine Marshmallow field")
      ELSE mmf

\* ------------------------------------------------------------------------
\* abc_schema.AbstractSchema: the representation checks
\* ------------------------------------------------------------------------

\* WellknownRepresentation
WellknownRepresentation == {"python", "pickle", "json", "xml", "sql", "html"}

\* SupportedRepresentations and SupportsCallableIO of the two schema classes
SupportedRepresentations(dialect) ==
  IF dialect = "MM" THEN {"python", "json"} ELSE {"python"}
SupportsCallableIO(dialect) == dialect = "MM"

\* AbstractSchema.check_supported_input and check_supported_output;
\* is_callable: external is callable, or a writer_callback is passed
check_supported(dialect, representation, is_callable) ==
  IF representation \notin SupportedRepresentations(dialect)
  THEN Raise("NotImplementedError", "", "representation not supported")
  ELSE IF ~SupportsCallableIO(dialect) /\ is_callable
  THEN Raise("NotImplementedError", "", "Callable IO not supported")
  ELSE Ok(PyNone)

\* ------------------------------------------------------------------------
\* Iterating a schema of either dialect (AbstractSchema.__iter__)
\* ------------------------------------------------------------------------

\* DCSchema.__iter__ wraps dataclasses.fields(__objclass__);
\* MMSchema.__iter__ yields declared_fields in their order
Elements(schema) ==
  IF schema.dialect = "DC" THEN schema.objclass.fields ELSE schema.declared

ElementName(schema, i) == Elements(schema)[i].name
ElementNames(schema) == [i \in 1..Len(Elements(schema)) |-> ElementName(schema, i)]

\* element.get_python_type()
ElementType(schema, i) ==
  IF schema.dialect = "DC" THEN Elements(schema)[i].type
  ELSE MM_get_python_type(Elements(schema)[i])

\* a variant that stores the field with the cached annotation in the first
\* place of the dataclass instead of its own
ElementAnnotation_First(schema, i) ==
  IF schema.dialect = "DC"
  THEN LET ga == DCSchemaElement_get_annotation(schema.objclass.fields[i])
       IN  [ann |-> ga.ann,
            schema |-> [schema EXCEPT !.objclass.fields[1] = ga.field]]
  ELSE [ann |-> MM_get_annotation(schema.declared[i]), schema |-> schema]

\* element.get_annotation(): the annotation, and the schema afterwards (a
\* DCSchemaElement caches the annotation in the field of the dataclass)
ElementAnnotation(schema, i) ==
  IF schema.dialect = "DC"
  THEN LET ga == DCSchemaElement_get_annotation(schema.objclass.fields[i])
       IN  [ann |-> ga.ann,
            schema |-> [schema EXCEPT !.objclass.fields[i] = ga.field]]
  ELSE [ann |-> MM_get_annotation(schema.declared[i]), schema |-> schema]

\* AbstractSchema.get_name as DCSchema and MMSchema refine it; "None" for None
get_name(schema) ==
  IF schema.objclass.kind = "none" THEN "None" ELSE schema.objclass.name

\* ------------------------------------------------------------------------
\* dataclasses_schema.DCSchema
\* ------------------------------------------------------------------------

\* the loop of DCSchema.validate_internal from element i on; d is the
\* mapping being updated.  Returns the schema and d as they are when the
\* loop ends or raises.
RECURSIVE DC_validate_loop(_, _, _)
DC_validate_loop(schema, i, d) ==
  IF i > Len(Elements(schema))
  THEN [r |-> Ok(PyNone), d |-> d, schema |-> schema]
  ELSE LET ea    == ElementAnnotation(schema, i)
           name  == ElementName(schema, i)
           value == IF name \in DOMAIN d THEN d[name] ELSE DC_MISSING
           newd  == STA_validate_internal(ea.ann, name, ElementType(schema, i), value)
       IN  IF newd.kind = "raise"
           THEN [r |-> newd, d |-> d, schema |-> ea.schema]
           ELSE DC_validate_loop(ea.schema, i + 1,
                  IF newd.val # DC_MISSING THEN Put(d, name, newd.val) ELSE d)

\* DCSchema.validate_internal(obj): d is obj.__dict__, or obj itself when
\* it is a dict.  r is the returned object or the exception.
DCSchema_validate_internal(schema, d) ==
  LET l == DC_validate_loop(schema, 1, d)
  IN  IF l.r.kind = "raise" THEN l
      ELSE [l EXCEPT !.r = Instantiate(l.schema.objclass, l.d)]

\* a variant that validates the object first and checks the destination
\* afterwards
DCSchema_to_external_CheckLate(schema, d, destination, has_writer) ==
  LET c == check_supported("DC", destination, has_writer)
      v == DCSchema_validate_internal(schema, d)
  IN  IF v.r.kind = "ok" /\ c.kind = "raise" THEN [v EXCEPT !.r = c] ELSE v

\* DCSchema.to_external(obj, destination, writer_callback)
DCSchema_to_external(schema, d, destination, has_writer) ==
  LET c == check_supported("DC", destination, has_writer)
  IN  IF c.kind = "raise" THEN [r |-> c, d |-> d, schema |-> schema]
      ELSE DCSchema_validate_internal(schema, d)

\* DCSchema.from_external(external, source)
DCSchema_from_external(schema, d, source, is_callable) ==
  LET c == check_supported("DC", source, is_callable)
  IN  IF c.kind = "raise" THEN [r |-> c, d |-> d, schema |-> schema]
      ELSE DCSchema_validate_internal(schema, d)

\* the loop of DCSchema.from_schema from element i on: fields collects
\* the synthesized dataclasses fields.  An element of an MMSchema hands
\* out its own metadata dict, which from_schema_element updates.
RECURSIVE DC_from_schema_loop(_, _, _)
DC_from_schema_loop(source, i, fields) ==
  IF i > Len(Elements(source)) THEN [source |-> source, fields |-> fields]
  ELSE LET ea    == ElementAnnotation(source, i)
           field == DCSchemaElement_from_schema_element(
                      ea.ann, ElementName(source, i), ElementType(source, i))
           after == IF source.dialect = "MM"
                    THEN [ea.schema EXCEPT !.declared[i].metadata.ann = <<ea.ann>>]
                    ELSE ea.schema
       IN  DC_from_schema_loop(after, i + 1, Append(fields, field))

\* a variant that filters on the key where the code sorts on it: the fields
\* without default are lost
SortByDefault_Filter(fields) ==
  SelectSeq(fields, LAMBDA f : f.default # DC_MISSING)

\* sorted(fields, key=lambda t: t[2].default is not dataclasses.MISSING):
\* a stable sort on a boolean key
SortByDefault(fields) ==
  SelectSeq(fields, LAMBDA f : f.default = DC_MISSING)
    \o SelectSeq(fields, LAMBDA f : f.default # DC_MISSING)

\* DCSchema.from_schema(schema): r is the new schema or the exception,
\* source is the foreign schema as it is afterwards
DCSchema_from_schema(schema) ==
  LET l      == DC_from_schema_loop(schema, 1, <<>>)
      fields == SortByDefault(l.fields)
      name   == IF get_name(schema) # "None" THEN get_name(schema) ELSE "dc_id"
      made   == make_dataclass(name, fields)
  IN  [r |-> IF made.kind = "raise" THEN made
             ELSE Ok(Schema("DC", <<>>, made.val)),
       source |-> l.source]

\* ------------------------------------------------------------------------
\* marshmallow (the library, as marshmallow_schema.py uses it)
\* ------------------------------------------------------------------------

MMInvalid(msg) == Raise("marshmallow.ValidationError", "", msg)

\* Field._deserialize by field class, for a value that is neither missing
\* nor None.  Number fields refuse bool; String accepts only str; List
\* accepts a collection and deserializes its items with the inner field (a
\* class passes the collection test and then fails to iterate).
Field_deserialize(field, value) ==
  CASE field.cls = "Integer" ->
         IF value.t = "bool" \/ int_of(value).kind = "raise"
         THEN MMInvalid("Not a valid integer.") ELSE int_of(value)
    [] field.cls = "Float" ->
         IF value.t = "bool" \/ float_of(value).kind = "raise"
         THEN MMInvalid("Not a valid number.") ELSE float_of(value)
    [] field.cls \in {"Str", "Email"} ->
         IF value.t = "str" THEN Ok(value) ELSE MMInvalid("Not a valid string.")
    [] field.cls = "Boolean" ->
         IF IsNumber(value) /\ Tenths(value) = 10 THEN Ok(PyBool("True"))
         ELSE IF IsNumber(value) /\ Tenths(value) = 0 THEN Ok(PyBool("False"))
         ELSE MMInvalid("Not a valid boolean.")
    [] field.cls = "List" ->
         IF value.t = "class" THEN Raise("TypeError", "", "'type' object is not iterable")
         ELSE IF value.t # "list" THEN MMInvalid("Not a valid list.")
         ELSE IF value.v = "[]" THEN Ok(value)
         ELSE IF value.v = "[1]" /\ field.inner[1].cls = "Integer" THEN Ok(value)
         ELSE IF value.v = "[1]" /\ field.inner[1].cls = "Float" THEN Ok(PyList("[1.0]"))
         ELSE MMInvalid("Not a valid item.")
    [] field.cls \in {"Dict", "Mapping"} ->
         IF value.t # "dict" THEN MMInvalid("Not a valid mapping type.")
         ELSE IF value.v = "{}" THEN Ok(value)
         ELSE IF field.inner[1].cls \in {"None", "Str"}
                 /\ field.inner[2].cls \in {"None", "Integer"} THEN Ok(value)
         ELSE MMInvalid("Not a valid item.")
    [] OTHER -> Ok(value)

\* Field.deserialize(value): value is marshmallow.missing for an absent key
Field_deserialize_value(field, value) ==
  IF value = MM_missing
  THEN IF field.required THEN MMInvalid("Missing data for required field.")
       ELSE Ok(IF Callable(field.missing) THEN CallFactory(field.missing)
               ELSE field.missing)
  ELSE IF value = PyNone
  THEN IF field.missing = PyNone THEN Ok(PyNone)
       ELSE MMInvalid("Field may not be null.")
  ELSE Field_deserialize(field, value)

\* Field._serialize by field class, for a value that is neither missing nor
\* None: the number fields call int() and float() unguarded
Field_serialize(field, value) ==
  CASE field.cls = "Integer" -> int_of(value)
    [] field.cls = "Float"   -> float_of(value)
    [] field.cls \in {"Str", "Email"} -> Ok(str_of(value))
    [] field.cls = "Boolean" ->
         IF IsNumber(value) /\ Tenths(value) = 0 THEN Ok(PyBool("False"))
         ELSE Ok(PyBool(IF Truthy(value) THEN "True" ELSE "False"))
    [] field.cls = "List" ->
         IF value.t \notin {"list", "str"}
         THEN Raise("TypeError", "", "object is not iterable")
         ELSE IF value.v = "[1]" /\ field.inner[1].cls = "Float" THEN Ok(PyList("[1.0]"))
         ELSE IF value.v = "[1]" /\ field.inner[1].cls = "Str" THEN Ok(PyList("['1']"))
         ELSE IF value.t = "str" THEN list_of(value)
         ELSE Ok(value)
    [] OTHER -> Ok(value)

\* Field.serialize(attr, obj): the attribute, else the dump default; the
\* result marshmallow.missing leaves the key out
Field_serialize_value(field, attrs) ==
  LET got   == IF field.name \in DOMAIN attrs THEN attrs[field.name] ELSE MM_missing
      value == IF got # MM_missing THEN got
               ELSE IF Callable(field.default) THEN CallFactory(field.default)
               ELSE field.default
  IN  IF value = MM_missing \/ value = PyNone THEN Ok(value)
      ELSE Field_serialize(field, value)

\* the keys of a mapping built from per-field results, leaving out missing
Collected(fields, results) ==
  LET keep == {i \in 1..Len(fields) : results[i].val # MM_missing}
  IN  [n \in {fields[i].name : i \in keep} |->
         results[CHOOSE i \in keep : fields[i].name = n].val]

\* the first exception of the fields, in their order, that is no
\* marshmallow.ValidationError (it ends the call at once)
FirstFatal(results) ==
  LET bad == {i \in 1..Len(results) :
                results[i].kind = "raise" /\ results[i].exc # "marshmallow.ValidationError"}
  IN  IF bad = {} THEN 0 ELSE CHOOSE i \in bad : \A j \in bad : i <= j

\* Schema.load(data): every field is deserialized and the errors are
\* collected; a key that is no field is an error (unknown=RAISE)
Schema_load(fields, data) ==
  LET results == [i \in 1..Len(fields) |->
                    Field_deserialize_value(fields[i],
                      IF fields[i].name \in DOMAIN data THEN data[fields[i].name]
                      ELSE MM_missing)]
      fatal   == FirstFatal(results)
  IN  IF fatal # 0 THEN results[fatal]
      ELSE IF \E i \in 1..Len(fields) : results[i].kind = "raise"
      THEN MMInvalid("invalid field")
      ELSE IF \E k \in DOMAIN data : k \notin FieldNames(fields)
      THEN MMInvalid("Unknown field.")
      ELSE Ok(Collected(fields, results))

\* Schema.dump(obj)
Schema_dump(fields, attrs) ==
  LET results == [i \in 1..Len(fields) |-> Field_serialize_value(fields[i], attrs)]
      bad     == {i \in 1..Len(fields) : results[i].kind = "raise"}
  IN  IF bad # {} THEN results[CHOOSE i \in bad : \A j \in bad : i <= j]
      ELSE Ok(Collected(fields, results))

\* ------------------------------------------------------------------------
\* JSON text (json.dumps and json.loads of a flat object)
\* ------------------------------------------------------------------------

StrReprs  == {"", "?", "5", "2.2", "Ann", "bla"}
ListReprs == {"[]", "[1]", "[1.0]"}
DictReprs == {"{}", "{\"k\": 1}"}

\* the values JSON text can denote
JsonValues ==
  {PyInt(s) : s \in IntReprs} \cup {PyFloat(s) : s \in FloatReprs}
    \cup {PyStr(s) : s \in StrReprs} \cup {PyList(s) : s \in ListReprs}
    \cup {PyDict(s) : s \in DictReprs}
    \cup {PyNone, PyBool("True"), PyBool("False")}

\* the JSON text of one value
JsonToken(x) ==
  CASE x.t = "str"      -> "\"" \o x.v \o "\""
    [] x.t = "NoneType" -> "null"
    [] x.t = "bool"     -> (IF x.v = "True" THEN "true" ELSE "false")
    [] OTHER            -> x.v

\* json.dumps(d): the text, as the token of each key; a class or a
\* sentinel is not JSON serializable
json_dumps(d) ==
  IF \E k \in DOMAIN d : d[k] \notin JsonValues
  THEN Raise("TypeError", "", "Object is not JSON serializable")
  ELSE Ok([k \in DOMAIN d |-> JsonToken(d[k])])

\* json.loads(text)
json_loads(text) ==
  [k \in DOMAIN text |-> CHOOSE x \in JsonValues : JsonToken(x) = text[k]]

\* ------------------------------------------------------------------------
\* marshmallow_schema.MMSchema
\* ------------------------------------------------------------------------

\* except mm.exceptions.ValidationError as verror:
\*     raise abc_schema.ValidationError(str(verror), original_error=verror)
TranslateError(r) ==
  IF r.kind = "raise" /\ r.exc = "marshmallow.ValidationError"
  THEN Raise("ValidationError", r.exc, r.msg) ELSE r

\* a variant that never constructs and returns the dict
object_factory_Raw(schema, d) == Ok(Obj("dict", d))

\* MMSchema.object_factory(d): a schema without shape returns the dict
object_factory(schema, d) ==
  IF schema.objclass.kind # "none" THEN Instantiate(schema.objclass, d)
  ELSE Ok(Obj("dict", d))

\* MMSchema.to_external(obj, destination, writer_callback): attrs is what
\* obj holds; writer is <<>> for None, else <<what the callback returns>>
MMSchema_to_external(schema, attrs, destination, writer) ==
  LET c == check_supported("MM", destination, writer # <<>>)
      dumped == Schema_dump(schema.declared, attrs)
      e == IF dumped.kind = "raise" THEN dumped
           ELSE IF destination = "json" THEN json_dumps(dumped.val)
           ELSE dumped
  IN  IF c.kind = "raise" THEN c
      ELSE IF e.kind = "raise" THEN TranslateError(e)
      ELSE IF writer # <<>> THEN Ok(writer[1])
      ELSE e

\* MMSchema.from_external(external, source): external is a mapping (a dict
\* or the __dict__ of an object) for python and JSON text for json
MMSchema_from_external(schema, external, source) ==
  LET c == check_supported("MM", source, FALSE)
      d == Schema_load(schema.declared,
                       IF source = "json" THEN json_loads(external) ELSE external)
  IN  IF c.kind = "raise" THEN c
      ELSE IF d.kind = "raise" THEN TranslateError(d)
      ELSE object_factory(schema, d.val)

\* MMSchema.validate_internal(obj): self.load(self.dump(obj))
MMSchema_validate_internal(schema, attrs) ==
  LET dumped == Schema_dump(schema.declared, attrs)
      d == IF dumped.kind = "raise" THEN dumped
           ELSE Schema_load(schema.declared, dumped.val)
  IN  IF d.kind = "raise" THEN TranslateError(d)
      ELSE object_factory(schema, d.val)

\* NotAvailable, the exception instance AbstractSchema.add_element raises
NotAvailable == Raise("NotImplementedError", "", "method not available in this class")

\* AbstractSchema.add_element(element), which DCSchema inherits: the
\* result and the schema afterwards
AbstractSchema_add_element(schema, element) == [r |-> NotAvailable, schema |-> schema]

\* a variant that binds the element as a further declared field
MMSchema_add_element_Append(schema, element) ==
  [r |-> Ok(element), schema |-> [schema EXCEPT !.declared = Append(@, element)]]

\* MMSchema.add_element(element): the result and the schema afterwards
MMSchema_add_element(schema, element) ==
  [r |-> Raise("NotImplementedError", "", "Marshmallow API doesn't support adding fields"),
   schema |-> schema]

\* the dict comprehension of MMSchema.from_schema from element i on
RECURSIVE MM_from_schema_loop(_, _, _)
MM_from_schema_loop(source, i, declared) ==
  IF i > Len(Elements(source))
  THEN [r |-> Ok(PyNone), source |-> source, declared |-> declared]
  ELSE LET ea  == ElementAnnotation(source, i)
           mmf == MM_from_schema_element(ea.ann, ElementType(source, i))
       IN  IF mmf.kind = "raise"
           THEN [r |-> mmf, source |-> ea.schema, declared |-> declared]
           ELSE MM_from_schema_loop(ea.schema, i + 1,
                  Append(declared, [mmf.val EXCEPT !.name = ElementName(source, i)]))

\* a variant that leaves the new schema without a bound shape
MMSchema_from_schema_Unbound(schema) ==
  LET l == MM_from_schema_loop(schema, 1, <<>>)
  IN  [r |-> IF l.r.kind = "raise" THEN l.r
             ELSE Ok(Schema("MM", l.declared, NoShape)),
       source |-> l.source]

\* MMSchema.from_schema(schema): r is the new schema or the exception,
\* source is the foreign schema as it is afterwards; __objclass__ is the
\* class the source is bound to, the same object
MMSchema_from_schema(schema) ==
  LET l == MM_from_schema_loop(schema, 1, <<>>)
  IN  [r |-> IF l.r.kind = "raise" THEN l.r
             ELSE Ok(Schema("MM", l.declared, l.source.objclass)),
       source |-> l.source]

\* ------------------------------------------------------------------------
\* The declared schemas and the objects passed in
\* ------------------------------------------------------------------------

\* the names of the elements, by position
Name(i) == CASE i = 1 -> "name" [] i = 2 -> "age" [] i = 3 -> "tags" [] OTHER -> "aux"

\* field declarations of a dataclass: <<type, default, default_factory>>
DCDecls ==
  {<<"int", d, DC_MISSING>> : d \in {DC_MISSING, PyInt("0"), PyInt("5")}}
    \cup {<<"str", d, DC_MISSING>> : d \in {DC_MISSING, PyStr("?"), PyNone}}
    \cup {<<"float", DC_MISSING, DC_MISSING>>,
          <<"list", DC_MISSING, ListClass>>,
          <<MkList("int"), DC_MISSING, DC_MISSING>>,
          <<MkList("int"), DC_MISSING, ListClass>>,
          <<MkDict("str", "typing.Any"), DC_MISSING, DC_MISSING>>}

\* a field declared without arguments, as the inner field of a List
Plain(cls) == MMField("", cls, <<>>, FALSE, MM_missing, MM_missing, <<>>)

\* field declarations of a marshmallow schema:
\* <<class, inner fields, required, missing>>
MMDecls ==
  {<<"Integer", <<>>, TRUE, MM_missing>>, <<"Integer", <<>>, FALSE, MM_missing>>,
   <<"Integer", <<>>, FALSE, PyInt("5")>>,
   <<"Float", <<>>, TRUE, MM_missing>>,
   <<"Str", <<>>, TRUE, MM_missing>>, <<"Str", <<>>, FALSE, PyStr("?")>>,
   <<"Str", <<>>, FALSE, PyNone>>,
   <<"List", <<Plain("Integer")>>, FALSE, MM_missing>>,
   <<"List", <<Plain("Integer")>>, FALSE, ListClass>>,
   <<"Raw", <<>>, FALSE, MM_missing>>}

DeclSeqs(decls) == UNION {[1..n -> decls] : n \in 1..MaxFields}

\* a dataclass as the @dataclass decorator accepts it (test_dataclasses_schema
\* .InventoryItem), with DCSchema.get_schema(dataclass)
DCSchemas ==
  {Schema("DC", <<>>, Shape("InventoryItem", "dataclass", fs)) :
     fs \in {fs \in {[i \in DOMAIN ds |->
                        DCField(Name(i), ds[i][1], ds[i][2], ds[i][3], <<>>)] :
                      ds \in DeclSeqs(DCDecls)} :
               make_dataclass("InventoryItem", fs).kind = "ok"}}

\* a class with an inner Schema (test_marshmallow_schema.Person), with
\* SchemedObject.__get_schema__()
MMSchemas ==
  {Schema("MM", fs, Shape("Person", "kwargs", <<>>)) :
     fs \in {[i \in DOMAIN ds |->
               MMField(Name(i), ds[i][1], ds[i][2], ds[i][3], ds[i][4],
                       MM_missing, <<>>)] :
             ds \in DeclSeqs(MMDecls)}}

\* the values passed for an element of python type pt
InputsFor(pt) ==
  CASE BaseType(pt) = "int"   -> {PyInt("0"), PyInt("5"), PyStr("5"), PyStr("bla")}
    [] BaseType(pt) = "float" -> {PyFloat("2.2"), PyStr("2.2"), PyStr("bla")}
    [] BaseType(pt) = "str"   -> {PyStr(""), PyStr("Ann")}
    [] BaseType(pt) = "list"  -> {PyList("[]"), PyList("[1]")}
    [] BaseType(pt) = "dict"  -> {PyDict("{}"), PyDict("{\"k\": 1}")}
    [] OTHER                  -> {PyInt("5")}

\* the mappings over the first i elements of a schema
RECURSIVE MappingsUpTo(_, _)
MappingsUpTo(schema, i) ==
  IF i = 0 THEN {<<>>}
  ELSE UNION {{d} \cup {Put(d, ElementName(schema, i), v) :
                          v \in InputsFor(ElementType(schema, i))} :
              d \in MappingsUpTo(schema, i - 1)}

\* the mappings passed in for a schema (a dict, or the __dict__ of an
\* object): any of its elements may be absent
Mappings(schema) == MappingsUpTo(schema, Len(Elements(schema)))

\* ------------------------------------------------------------------------
\* The state: one schema, one object, and the calls made on them
\* ------------------------------------------------------------------------

VARIABLES
  src,    \* the declared schema
  obj,    \* the mapping passed to the calls (a dict, or the __dict__ of the object)
  obj0,   \* obj as it was when it was built
  ext,    \* what src.to_external(obj, python) returned or raised
  tgt,    \* the dialect and the result of <dialect>.from_schema(src)
  res,    \* the last validation, import or construction and its result
  pc,     \* how far the calls have come
  klass,  \* the class the accessor __get_schema__ is called on
  callers \* the callers that use src at the same time, each with its own object

vars == <<src, obj, obj0, ext, tgt, res, pc, klass, callers>>

\* A class derived from SchemedObject: Schema is <<the declared fields of
\* its inner Schema class>>, or <<>> without one; attrs are the attributes
\* set on the class by name (the value is the number of the schema
\* instance); made counts the instantiations of Schema
Class(name, inner) == [name |-> name, Schema |-> inner, attrs |-> <<>>, made |-> 0]
NoClass == Class("", <<>>)

\* no call made yet
NoResult == [kind |-> "none", val |-> PyNone, exc |-> "", orig |-> "", msg |-> ""]

Init ==
  /\ src \in DCSchemas \cup MMSchemas
  /\ obj0 = <<>>
  /\ obj = obj0
  /\ ext = NoResult
  /\ tgt = [dialect |-> "", r |-> NoResult]
  /\ res = [op |-> "", r |-> NoResult]
  /\ pc = "init"
  /\ klass = NoClass
  /\ callers = <<>>

\* the caller builds the object, or the dict, the calls are made on
NewObject ==
  /\ pc = "init"
  /\ \E d \in Mappings(src) : obj' = d /\ obj0' = d
  /\ pc' = "object"
  /\ UNCHANGED <<src, ext, tgt, res, klass, callers>>

\* src.validate_internal(obj)
Validate ==
  /\ pc = "object"
  /\ IF src.dialect = "DC"
     THEN LET c == DCSchema_validate_internal(src, obj)
          IN  /\ res' = [op |-> "validate", r |-> c.r]
              /\ obj' = c.d
              /\ src' = c.schema
     ELSE /\ res' = [op |-> "validate", r |-> MMSchema_validate_internal(src, obj)]
          /\ UNCHANGED <<obj, src>>
  /\ pc' = "validated"
  /\ UNCHANGED <<obj0, ext, tgt, klass, callers>>

\* annotation.validate_internal(annotation, element, value) for element i
\* of a DCSchema and the value obj holds for it, as the loop of
\* DCSchema.validate_internal calls it
ValidateElement(i) ==
  /\ pc = "object"
  /\ src.dialect = "DC"
  /\ i \in 1..Len(Elements(src))
  /\ LET ea    == ElementAnnotation(src, i)
         name  == ElementName(src, i)
         value == IF name \in DOMAIN obj THEN obj[name] ELSE DC_MISSING
     IN  /\ res' = [op |-> "element", name |-> name, value |-> value,
                    r |-> STA_validate_internal(ea.ann, name, ElementType(src, i), value)]
         /\ src' = ea.schema
  /\ pc' = "validated"
  /\ UNCHANGED <<obj, obj0, ext, tgt, klass, callers>>

\* ext = src.to_external(obj, destination=python)
Export ==
  /\ pc = "object"
  /\ IF src.dialect = "DC"
     THEN LET c == DCSchema_to_external(src, obj, "python", FALSE)
          IN  /\ ext' = c.r
              /\ obj' = c.d
              /\ src' = c.schema
     ELSE LET e == MMSchema_to_external(src, obj, "python", <<>>)
          IN  /\ ext' = IF e.kind = "ok" THEN Ok(Obj("dict", e.val)) ELSE e
              /\ UNCHANGED <<obj, src>>
  /\ pc' = "exported"
  /\ UNCHANGED <<obj0, tgt, res, klass, callers>>

\* src.from_external(ext, source=python)
ImportSame ==
  /\ pc = "exported"
  /\ ext.kind = "ok"
  /\ IF src.dialect = "DC"
     THEN LET c == DCSchema_from_external(src, ext.val.attrs, "python", FALSE)
          IN  /\ res' = [op |-> "import_same", r |-> c.r]
              /\ src' = c.schema
     ELSE /\ res' = [op |-> "import_same",
                     r |-> MMSchema_from_external(src, ext.val.attrs, "python")]
          /\ UNCHANGED src
  /\ pc' = "done"
  /\ UNCHANGED <<obj, obj0, ext, tgt, klass, callers>>

\* tgt = DCSchema.from_schema(src) or MMSchema.from_schema(src)
Translate(dialect) ==
  /\ pc \in {"init", "exported"}
  /\ LET t == IF dialect = "DC" THEN DCSchema_from_schema(src)
              ELSE MMSchema_from_schema(src)
     IN  /\ tgt' = [dialect |-> dialect, r |-> t.r]
         /\ src' = t.source
  /\ pc' = IF pc = "init" THEN "translated" ELSE "ready"
  /\ UNCHANGED <<obj, obj0, ext, res, klass, callers>>

\* tgt.from_external(ext, source): for json the exported fields are passed
\* as json.dumps(ext.__dict__), as test_export_dc_import_mm_json does
ImportCross(source) ==
  /\ pc = "ready"
  /\ ext.kind = "ok"
  /\ tgt.r.kind = "ok"
  /\ source \in SupportedRepresentations(tgt.dialect)
  /\ LET text == json_dumps(ext.val.attrs)
     IN  res' = [op |-> "import_cross",
                 r |-> IF tgt.dialect = "DC"
                       THEN DCSchema_from_external(tgt.r.val, ext.val.attrs, source, FALSE).r
                       ELSE IF source = "json" /\ text.kind = "raise" THEN text
                       ELSE MMSchema_from_external(tgt.r.val,
                              IF source = "json" THEN text.val ELSE ext.val.attrs, source)]
  /\ pc' = "done"
  /\ UNCHANGED <<src, obj, obj0, ext, tgt, klass, callers>>

\* element.get_annotation().required for the elements of a schema
RequiredNames(schema) ==
  {ElementName(schema, i) : i \in {j \in 1..Len(Elements(schema)) :
                                      ElementAnnotation(schema, j).ann.required}}

\* tgt.__objclass__(**kw) with values for the required elements of src
\* only, as test_dataclasses_from_mm constructs the translated dataclass
Construct_required ==
  /\ pc = "translated"
  /\ tgt.dialect = "DC"
  /\ tgt.r.kind = "ok"
  /\ res' = [op |-> "construct",
             r |-> Instantiate(tgt.r.val.objclass,
                     [n \in RequiredNames(src) |-> PyStr("Ann")])]
  /\ pc' = "done"
  /\ UNCHANGED <<src, obj, obj0, ext, tgt, klass, callers>>

Next ==
  \/ NewObject
  \/ Validate
  \/ \E i \in 1..MaxFields : ValidateElement(i)
  \/ Export
  \/ ImportSame
  \/ \E dialect \in {"DC", "MM"} : Translate(dialect)
  \/ \E source \in {"python", "json"} : ImportCross(source)
  \/ Construct_required

Spec == Init /\ [][Next]_vars

\* ------------------------------------------------------------------------
\* The calls with a representation, a writer callback or a callable source
\* ------------------------------------------------------------------------

\* the representations passed as destination or source: python, json (not
\* supported by DCSchema) and xml (supported by neither)
IOReps == {"python", "json", "xml"}

\* the writer_callback passed: <<>> for None, else <<what the callback returns>>
Writers == {<<>>, <<PyNone>>, <<PyInt("5")>>}

\* the objects of the shape of a schema: every element holds a value
Instances(schema) ==
  {d \in Mappings(schema) : DOMAIN d = {ElementName(schema, i) : i \in 1..Len(Elements(schema))}}

\* the payloads MMSchema.to_external hands to the writer_callback
MMSchema_to_external_calls(schema, attrs, destination, writer) ==
  LET c == check_supported("MM", destination, writer # <<>>)
      e == MMSchema_to_external(schema, attrs, destination, <<>>)
  IN  IF c.kind = "raise" \/ e.kind = "raise" \/ writer = <<>> THEN <<>>
      ELSE <<e.val>>

\* the caller builds an object of the shape
NewInstance ==
  /\ pc = "init"
  /\ \E d \in Instances(src) : obj' = d /\ obj0' = d
  /\ pc' = "object"
  /\ UNCHANGED <<src, ext, tgt, res, klass, callers>>

\* src.to_external(obj, destination, writer_callback)
ToExternal(destination, writer) ==
  /\ pc = "object"
  /\ IF src.dialect = "DC"
     THEN LET c == DCSchema_to_external(src, obj, destination, writer # <<>>)
          IN  /\ res' = [op |-> "to_external", rep |-> destination, writer |-> writer,
                         r |-> c.r, calls |-> <<>>]
              /\ obj' = c.d
              /\ src' = c.schema
     ELSE /\ res' = [op |-> "to_external", rep |-> destination, writer |-> writer,
                     r |-> MMSchema_to_external(src, obj, destination, writer),
                     calls |-> MMSchema_to_external_calls(src, obj, destination, writer)]
          /\ UNCHANGED <<obj, src>>
  /\ pc' = "done"
  /\ UNCHANGED <<obj0, ext, tgt, klass, callers>>

\* src.from_external(external, source): external is obj, or the JSON text
\* of its fields when source is json, or a callable returning that
FromExternal(source, is_callable) ==
  /\ pc = "object"
  /\ LET text == json_dumps(obj)
     IN  /\ source = "json" => text.kind = "ok"
         /\ IF src.dialect = "DC"
            THEN LET c == DCSchema_from_external(src, obj, source, is_callable)
                 IN  /\ res' = [op |-> "from_external", rep |-> source,
                                callable |-> is_callable, r |-> c.r]
                     /\ obj' = c.d
                     /\ src' = c.schema
            ELSE /\ res' = [op |-> "from_external", rep |-> source,
                            callable |-> is_callable,
                            r |-> MMSchema_from_external(src,
                                    IF source = "json" THEN text.val ELSE obj, source)]
                 /\ UNCHANGED <<obj, src>>
  /\ pc' = "done"
  /\ UNCHANGED <<obj0, ext, tgt, klass, callers>>

NextIO ==
  \/ NewInstance
  \/ \E destination \in IOReps, writer \in Writers : ToExternal(destination, writer)
  \/ \E source \in IOReps, is_callable \in BOOLEAN : FromExternal(source, is_callable)

SpecIO == Init /\ [][NextIO]_vars

\* ------------------------------------------------------------------------
\* Materialization: the object factory of an MMSchema, bound or not
\* ------------------------------------------------------------------------

\* an MMSchema that was instantiated directly: __objclass__ is None
UnboundMMSchemas == {[s EXCEPT !.objclass = NoShape] : s \in MMSchemas}

MaterializeOps == {"from_external", "validate_internal", "object_factory"}

InitShape ==
  /\ src \in DCSchemas \cup MMSchemas \cup UnboundMMSchemas
  /\ obj0 = <<>>
  /\ obj = obj0
  /\ ext = NoResult
  /\ tgt = [dialect |-> "", r |-> NoResult]
  /\ res = [op |-> "", r |-> NoResult]
  /\ pc = "init"
  /\ klass = NoClass
  /\ callers = <<>>

\* schema.from_external(d, python), schema.validate_internal(d) or
\* schema.object_factory(d) on an MMSchema: on the source itself ("src") or
\* on MMSchema.from_schema(source) ("tgt"); d holds a value for every element
Materialize(on, op) ==
  /\ pc = "translated"
  /\ on = "tgt" => tgt.r.kind = "ok"
  /\ on = "src" => src.dialect = "MM"
  /\ LET schema == IF on = "src" THEN src ELSE tgt.r.val
     IN  \E d \in Instances(src) :
           res' = [op |-> op, on |-> on, data |-> d,
                   r |-> CASE op = "from_external" ->
                                MMSchema_from_external(schema, d, "python")
                           [] op = "validate_internal" ->
                                MMSchema_validate_internal(schema, d)
                           [] OTHER -> object_factory(schema, d)]
  /\ pc' = "done"
  /\ UNCHANGED <<src, obj, obj0, ext, tgt, klass, callers>>

\* the elements passed to add_element: a field of either dialect
NewElements ==
  {DCField("aux", "int", DC_MISSING, DC_MISSING, <<>>),
   [Plain("Integer") EXCEPT !.name = "aux"],
   [Plain("Str") EXCEPT !.name = "name"]}

\* src.add_element(element)
AddElement(element) ==
  /\ pc = "init"
  /\ LET a == IF src.dialect = "MM" THEN MMSchema_add_element(src, element)
              ELSE AbstractSchema_add_element(src, element)
     IN  /\ res' = [op |-> "add_element", element |-> element, r |-> a.r]
         /\ src' = a.schema
  /\ pc' = "done"
  /\ UNCHANGED <<obj, obj0, ext, tgt, klass, callers>>

NextShape ==
  \/ Translate("MM")
  \/ \E element \in NewElements : AddElement(element)
  \/ \E on \in {"src", "tgt"}, op \in MaterializeOps : Materialize(on, op)

SpecShape == InitShape /\ [][NextShape]_vars

\* ------------------------------------------------------------------------
\* marshmallow_schema.SchemedObject: the schema accessor
\* ------------------------------------------------------------------------

\* the number of calls of __get_schema__ on one class
MaxCalls == 2

\* getattr(cls, name, None): <<>> for None
GetAttr(k, name) == IF name \in DOMAIN k.attrs THEN <<k.attrs[name]>> ELSE <<>>

\* the attribute an assignment to cls.__schema sets: inside the body of
\* class SchemedObject the identifier __schema is a private name
Mangled(classname, name) == "_" \o classname \o name

\* the schema instance number id of a class: sclass() with __objclass__ set
SchemaInstance(k, id) ==
  [id |-> id, schema |-> Schema("MM", k.Schema[1], Shape(k.name, "kwargs", <<>>))]

\* SchemedObject.__get_schema__ on the class k: the result and the class
\* afterwards
get_schema(k) ==
  LET s == GetAttr(k, "__schema")
  IN  IF s # <<>> THEN [r |-> Ok(SchemaInstance(k, s[1])), klass |-> k]
      ELSE IF k.Schema = <<>>
      THEN [r |-> Raise("ValueError", "", "Class must have Schema inner class"),
            klass |-> k]
      ELSE [r |-> Ok(SchemaInstance(k, k.made + 1)),
            klass |-> [k EXCEPT !.made = @ + 1,
                                !.attrs = Put(@, Mangled("SchemedObject", "__schema"),
                                              k.made + 1)]]

\* a class derived from SchemedObject, with an inner Schema (as
\* test_marshmallow_schema.Person) or without one
InitAccessor ==
  /\ klass \in {Class("Person", <<s.declared>>) : s \in MMSchemas}
               \cup {Class("Person", <<>>)}
  /\ src = Schema("MM", <<>>, NoShape)
  /\ obj0 = <<>>
  /\ obj = obj0
  /\ ext = NoResult
  /\ tgt = [dialect |-> "", r |-> NoResult]
  /\ res = [op |-> "", r |-> NoResult]
  /\ pc = "init"
  /\ callers = <<>>

\* the number of calls made so far
Calls == IF res.op = "get_schema" THEN res.call ELSE 0

\* s = klass.__get_schema__()
GetSchema ==
  /\ Calls < MaxCalls
  /\ LET g == get_schema(klass)
     IN  /\ res' = [op |-> "get_schema", call |-> Calls + 1, r |-> g.r, prev |-> res.r]
         /\ klass' = g.klass
         /\ src' = IF g.r.kind = "ok" THEN g.r.val.schema ELSE src
  /\ UNCHANGED <<obj, obj0, ext, tgt, pc, callers>>

NextAccessor == GetSchema

SpecAccessor == InitAccessor /\ [][NextAccessor]_vars

\* ------------------------------------------------------------------------
\* Translation, and translation of the translated schema
\* ------------------------------------------------------------------------

\* DCSchema.from_schema(tgt) or MMSchema.from_schema(tgt) on a schema
\* that from_schema returned
Retranslate(dialect) ==
  /\ pc = "translated"
  /\ tgt.r.kind = "ok"
  /\ LET t == IF dialect = "DC" THEN DCSchema_from_schema(tgt.r.val)
              ELSE MMSchema_from_schema(tgt.r.val)
     IN  /\ res' = [op |-> "from_schema", dialect |-> dialect, r |-> t.r]
         /\ tgt' = [tgt EXCEPT !.r.val = t.source]
  /\ pc' = "done"
  /\ UNCHANGED <<src, obj, obj0, ext, klass, callers>>

NextTranslate ==
  \/ \E dialect \in {"DC", "MM"} : Translate(dialect)
  \/ \E dialect \in {"DC", "MM"} : Retranslate(dialect)

SpecTranslate == InitShape /\ [][NextTranslate]_vars

\* ------------------------------------------------------------------------
\* DCSchema.from_schema statement by statement, and the accessor of the
\* shape it makes
\* ------------------------------------------------------------------------

\* the name of the accessor make_dataclass receives in its namespace
AccessorName == "get_schema"

\* schemas with an element that has the name of the accessor
AccessorNamedSchemas ==
  {[s EXCEPT !.objclass.fields[1].name = AccessorName] : s \in DCSchemas}
    \cup {[s EXCEPT !.declared[1].name = AccessorName] :
            s \in MMSchemas \cup UnboundMMSchemas}

InitBind ==
  /\ src \in DCSchemas \cup MMSchemas \cup UnboundMMSchemas \cup AccessorNamedSchemas
  /\ obj0 = <<>>
  /\ obj = obj0
  /\ ext = NoResult
  /\ tgt = [dialect |-> "", r |-> NoResult]
  /\ res = [op |-> "", r |-> NoResult]
  /\ pc = "init"
  /\ klass = NoClass
  /\ callers = <<>>

\* dcschema = cls(None); fields = []
CreateUnbound ==
  /\ pc = "init"
  /\ tgt' = [dialect |-> "DC", r |-> Ok(Schema("DC", <<>>, NoShape))]
  /\ res' = [op |-> "from_schema", source |-> src, fields |-> <<>>, r |-> NoResult]
  /\ pc' = "loop"
  /\ UNCHANGED <<src, obj, obj0, ext, klass, callers>>

\* one turn of the loop: fields.append(from_schema_element(element, dcschema))
Synthesize ==
  /\ pc = "loop"
  /\ Len(res.fields) < Len(Elements(src))
  /\ LET i     == Len(res.fields) + 1
         ea    == ElementAnnotation(src, i)
         field == DCSchemaElement_from_schema_element(
                    ea.ann, ElementName(src, i), ElementType(src, i))
     IN  /\ res' = [res EXCEPT !.fields = Append(@, field)]
         /\ src' = IF src.dialect = "MM"
                   THEN [ea.schema EXCEPT !.declared[i].metadata.ann = <<ea.ann>>]
                   ELSE ea.schema
  /\ UNCHANGED <<obj, obj0, ext, tgt, pc, klass, callers>>

\* after the loop: sort, name, dcschema.__objclass__ = make_dataclass(...)
Bind ==
  /\ pc = "loop"
  /\ Len(res.fields) = Len(Elements(src))
  /\ LET fields == SortByDefault(res.fields)
         name   == IF get_name(src) # "None" THEN get_name(src) ELSE "dc_id"
         made   == make_dataclass(name, fields)
     IN  tgt' = [tgt EXCEPT !.r = IF made.kind = "raise" THEN made
                                  ELSE Ok(Schema("DC", <<>>, made.val))]
  /\ pc' = "bound"
  /\ UNCHANGED <<src, obj, obj0, ext, res, klass, callers>>

\* o.get_schema() on an instance o of the shape: the namespace entry
\* get_schema returns dcschema, unless a field of that name took its place
\* in the class and o holds the field's value under that name
Instance_get_schema(dcschema, o) ==
  IF AccessorName \in DOMAIN o.attrs
  THEN IF Callable(o.attrs[AccessorName])
       THEN Ok(CallFactory(o.attrs[AccessorName]))
       ELSE Raise("TypeError", "", "object is not callable")
  ELSE Ok(dcschema)

\* an instance of the new shape is built with a value for every field, and
\* its accessor is called
CallAccessor ==
  /\ pc = "bound"
  /\ tgt.r.kind = "ok"
  /\ LET shape == tgt.r.val.objclass
         o     == Instantiate(shape, [n \in FieldNames(shape.fields) |-> PyInt("5")])
     IN  res' = [res EXCEPT !.op = "get_schema",
                            !.r = IF o.kind = "raise" THEN o
                                  ELSE Instance_get_schema(tgt.r.val, o.val)]
  /\ pc' = "done"
  /\ UNCHANGED <<src, obj, obj0, ext, tgt, klass, callers>>

NextBind ==
  \/ CreateUnbound
  \/ Synthesize
  \/ Bind
  \/ CallAccessor

SpecBind == InitBind /\ [][NextBind]_vars

\* ------------------------------------------------------------------------
\* Callers that use one schema at the same time
\* ------------------------------------------------------------------------

\* the number of elements of the schema the callers share
MaxShared == 1

\* the callers
Callers == {"a", "b"}

\* what a caller does with the schema
CallerOps == {"iterate", "validate_internal", "to_external", "from_external"}

\* the schemas the callers share: a dataclass with required, defaulted and
\* deferred elements, or a class with an inner Schema
SharedDCDecls ==
  {<<"int", DC_MISSING, DC_MISSING>>, <<"int", PyInt("5"), DC_MISSING>>,
   <<"str", PyStr("?"), DC_MISSING>>, <<"list", DC_MISSING, ListClass>>}
SharedMMDecls ==
  {<<"Integer", <<>>, TRUE, MM_missing>>, <<"Integer", <<>>, FALSE, PyInt("5")>>,
   <<"Str", <<>>, FALSE, PyStr("?")>>}
SharedDeclSeqs(decls) == UNION {[1..n -> decls] : n \in 1..MaxShared}
SharedSchemas ==
  {Schema("DC", <<>>, Shape("InventoryItem", "dataclass", fs)) :
     fs \in {fs \in {[i \in DOMAIN ds |->
                        DCField(Name(i), ds[i][1], ds[i][2], ds[i][3], <<>>)] :
                      ds \in SharedDeclSeqs(SharedDCDecls)} :
               make_dataclass("InventoryItem", fs).kind = "ok"}}
    \cup
  {Schema("MM", fs, Shape("Person", "kwargs", <<>>)) :
     fs \in {[i \in DOMAIN ds |->
               MMField(Name(i), ds[i][1], ds[i][2], ds[i][3], ds[i][4],
                       MM_missing, <<>>)] :
             ds \in SharedDeclSeqs(SharedMMDecls)}}

\* the values a caller's object holds for an element of python type pt
SharedInputsFor(pt) ==
  CASE BaseType(pt) = "int"  -> {PyInt("0"), PyStr("5"), PyStr("bla")}
    [] BaseType(pt) = "str"  -> {PyStr(""), PyStr("Ann")}
    [] BaseType(pt) = "list" -> {PyList("[]"), PyList("[1]")}
    [] OTHER                 -> {PyInt("5")}

\* the objects of the shape of a schema, over the first i elements
RECURSIVE SharedObjectsUpTo(_, _)
SharedObjectsUpTo(schema, i) ==
  IF i = 0 THEN {<<>>}
  ELSE {Put(d, ElementName(schema, i), v) :
          d \in SharedObjectsUpTo(schema, i - 1),
          v \in SharedInputsFor(ElementType(schema, i))}
SharedObjects(schema) == SharedObjectsUpTo(schema, Len(Elements(schema)))

\* a caller: where it stands (pc), the operation, its own object (the
\* mapping d of validate_internal), the element it is at, the annotation it
\* holds for it (<<>> for none), the elements iterated so far, whether it
\* computed an annotation itself, the result, and the result of the same
\* call when nothing else runs
Idle ==
  [pc |-> "idle", op |-> "", obj |-> <<>>, i |-> 1, ann |-> <<>>, seen |-> <<>>,
   computed |-> FALSE, r |-> NoResult, alone |-> NoResult]

\* [(se.get_name(), se.get_python_type()) for se in schema]
Iterated(schema) ==
  [i \in 1..Len(Elements(schema)) |-> <<ElementName(schema, i), ElementType(schema, i)>>]

\* the call op on schema with the object d, made with no other caller
Alone(schema, op, d) ==
  CASE op = "iterate" -> Ok(Iterated(schema))
    [] op = "validate_internal" ->
         IF schema.dialect = "DC" THEN DCSchema_validate_internal(schema, d).r
         ELSE MMSchema_validate_internal(schema, d)
    [] op = "to_external" ->
         IF schema.dialect = "DC" THEN DCSchema_to_external(schema, d, "python", FALSE).r
         ELSE MMSchema_to_external(schema, d, "python", <<>>)
    [] OTHER ->
         IF schema.dialect = "DC" THEN DCSchema_from_external(schema, d, "python", FALSE).r
         ELSE MMSchema_from_external(schema, d, "python")

InitShared ==
  /\ src \in SharedSchemas
  /\ callers = [c \in Callers |-> Idle]
  /\ obj0 = <<>>
  /\ obj = obj0
  /\ ext = NoResult
  /\ tgt = [dialect |-> "", r |-> NoResult]
  /\ res = [op |-> "", r |-> NoResult]
  /\ pc = "init"
  /\ klass = NoClass

\* the caller c enters op with its own object d; to_external and
\* from_external (python) pass the check of the representation
Begin(c, op, d) ==
  /\ callers[c].pc = "idle"
  /\ callers' = [callers EXCEPT ![c] =
       [@ EXCEPT !.pc = CASE op = "iterate" -> "iter"
                          [] src.dialect = "DC" -> "get"
                          [] OTHER -> "call",
                 !.op = op,
                 !.obj = IF op = "iterate" THEN <<>> ELSE d,
                 !.alone = Alone(src, op, IF op = "iterate" THEN <<>> ELSE d)]]
  /\ UNCHANGED <<src, obj, obj0, ext, tgt, res, pc, klass>>

\* one turn of __iter__ of src for the caller c: MMSchema.__iter__ sets
\* field.name to the key the field is declared under
IterStep(c) ==
  /\ callers[c].pc = "iter"
  /\ LET i == callers[c].i
     IN  IF i > Len(Elements(src))
         THEN /\ callers' = [callers EXCEPT ![c] =
                   [@ EXCEPT !.pc = "done", !.r = Ok(callers[c].seen)]]
              /\ UNCHANGED src
         ELSE /\ callers' = [callers EXCEPT ![c] =
                   [@ EXCEPT !.i = i + 1,
                             !.seen = Append(@, <<ElementName(src, i), ElementType(src, i)>>)]]
              /\ src' = IF src.dialect = "MM"
                        THEN [src EXCEPT !.declared[i].name = ElementName(src, i)]
                        ELSE src
  /\ UNCHANGED <<obj, obj0, ext, tgt, res, pc, klass>>

\* ann = self.field.metadata.get(Ann_meta_key) for element i
get_annotation_cached(schema, i) == schema.objclass.fields[i].metadata.ann

\* a variant that caches a blank annotation, SchemaTypeAnnotation(), and
\* returns the computed one
get_annotation_store_Blank(schema, i) ==
  LET field == schema.objclass.fields[i]
      ga    == DCSchemaElement_get_annotation([field EXCEPT !.metadata.ann = <<>>])
  IN  [ann |-> ga.ann,
       schema |-> [schema EXCEPT !.objclass.fields[i].metadata.ann =
                     <<SchemaTypeAnnotation(FALSE, MISSING)>>]]

\* the branch `if not ann` of get_annotation for element i: the annotation
\* is computed from the field and stored in the field's metadata, whatever
\* the metadata holds by then
get_annotation_store(schema, i) ==
  LET field == schema.objclass.fields[i]
      ga    == DCSchemaElement_get_annotation([field EXCEPT !.metadata.ann = <<>>])
  IN  [ann |-> ga.ann,
       schema |-> [schema EXCEPT !.objclass.fields[i].metadata = ga.field.metadata]]

\* the caller c reads the cached annotation of its element
GetCached(c) ==
  /\ callers[c].pc = "get"
  /\ LET ann == get_annotation_cached(src, callers[c].i)
     IN  callers' = [callers EXCEPT ![c] =
           [@ EXCEPT !.pc = IF ann # <<>> THEN "validate" ELSE "store", !.ann = ann]]
  /\ UNCHANGED <<src, obj, obj0, ext, tgt, res, pc, klass>>

\* the caller c, having found no cached annotation, computes and stores one
Store(c) ==
  /\ callers[c].pc = "store"
  /\ LET s == get_annotation_store(src, callers[c].i)
     IN  /\ src' = s.schema
         /\ callers' = [callers EXCEPT ![c] =
              [@ EXCEPT !.pc = "validate", !.ann = <<s.ann>>, !.computed = TRUE]]
  /\ UNCHANGED <<obj, obj0, ext, tgt, res, pc, klass>>

\* the caller c validates the value of its element and stores it in d
ValidateStep(c) ==
  /\ callers[c].pc = "validate"
  /\ LET i     == callers[c].i
         d     == callers[c].obj
         name  == ElementName(src, i)
         value == IF name \in DOMAIN d THEN d[name] ELSE DC_MISSING
         newd  == STA_validate_internal(callers[c].ann[1], name, ElementType(src, i), value)
     IN  callers' = [callers EXCEPT ![c] =
           IF newd.kind = "raise" THEN [@ EXCEPT !.pc = "done", !.r = newd]
           ELSE [@ EXCEPT !.pc = IF i < Len(Elements(src)) THEN "get" ELSE "construct",
                          !.i = i + 1,
                          !.ann = <<>>,
                          !.obj = IF newd.val # DC_MISSING THEN Put(d, name, newd.val) ELSE d]]
  /\ UNCHANGED <<src, obj, obj0, ext, tgt, res, pc, klass>>

\* obj = self.__objclass__(**d) for the caller c
ConstructStep(c) ==
  /\ callers[c].pc = "construct"
  /\ callers' = [callers EXCEPT ![c] =
       [@ EXCEPT !.pc = "done", !.r = Instantiate(src.objclass, callers[c].obj)]]
  /\ UNCHANGED <<src, obj, obj0, ext, tgt, res, pc, klass>>

\* the call of the caller c on an MMSchema: marshmallow's dump and load
\* with the schema as it is
CallStep(c) ==
  /\ callers[c].pc = "call"
  /\ callers' = [callers EXCEPT ![c] =
       [@ EXCEPT !.pc = "done", !.r = Alone(src, callers[c].op, callers[c].obj)]]
  /\ UNCHANGED <<src, obj, obj0, ext, tgt, res, pc, klass>>

NextShared ==
  \/ \E c \in Callers, op \in CallerOps, d \in SharedObjects(src) : Begin(c, op, d)
  \/ \E c \in Callers : IterStep(c)
  \/ \E c \in Callers : GetCached(c)
  \/ \E c \in Callers : Store(c)
  \/ \E c \in Callers : ValidateStep(c)
  \/ \E c \in Callers : ConstructStep(c)
  \/ \E c \in Callers : CallStep(c)

SpecShared == InitShared /\ [][NextShared]_vars

\* ------------------------------------------------------------------------
\* Vocabulary of the properties
\* ------------------------------------------------------------------------

Indices(schema) == 1..Len(Elements(schema))
AnnOf(schema, i) == ElementAnnotation(schema, i).ann
IndexOf(schema, n) == CHOOSE i \in Indices(schema) : ElementName(schema, i) = n
NameSet(schema) == {ElementName(schema, i) : i \in Indices(schema)}

\* the object holds, for element i, a value of the declared type
HoldsTyped(schema, d, i) ==
  /\ ElementName(schema, i) \in DOMAIN d
  /\ d[ElementName(schema, i)].t = BaseType(ElementType(schema, i))

\* every element of the object holds a value of its declared type
WellTyped(schema, d) == \A i \in Indices(schema) : HoldsTyped(schema, d, i)

\* element i is absent from the input, or its value is empty
AbsentOrEmpty(schema, d, i) ==
  ElementName(schema, i) \notin DOMAIN d \/ ~Truthy(d[ElementName(schema, i)])

\* all elements but i hold non-empty values of their declared types
OthersFine(schema, d, i) ==
  \A j \in Indices(schema) \ {i} :
     HoldsTyped(schema, d, j) /\ Truthy(d[ElementName(schema, j)])

\* the object returned has, for every name of d, a value equal to d's
SameFields(r, d) ==
  /\ r.kind = "ok"
  /\ \A n \in DOMAIN d : n \in DOMAIN r.val.attrs /\ PyEq(r.val.attrs[n], d[n])

\* ------------------------------------------------------------------------
\* Properties
\* ------------------------------------------------------------------------

\* C1: cross-dialect round trip.  For B = <other dialect>.from_schema(A) and
\* an object valid under A (every element holds a value of its declared
\* type), B.from_external(A.to_external(o, python), python), or the same
\* fields passed as JSON text, returns an object whose fields equal o's.
C1_CrossRoundTrip ==
  (res.op = "import_cross" /\ tgt.dialect # src.dialect /\ WellTyped(src, obj0))
    => SameFields(res.r, obj0)

\* C2: round trip within one dialect.  For an object valid under the schema
\* (values of the declared types, 0 and empty values included),
\* schema.from_external(schema.to_external(o, python), python) returns an
\* object equal to o in every field.
C2_RoundTrip ==
  (res.op = "import_same" /\ WellTyped(src, obj0)) => SameFields(res.r, obj0)

\* C3: required-field enforcement.  DCSchema.validate_internal raises the
\* ValidationError naming a required element whenever that element is
\* absent from the input or empty (the other elements being fine).
C3_RequiredEnforced ==
  (res.op = "validate" /\ src.dialect = "DC") =>
    \A i \in Indices(src) :
      (AnnOf(src, i).required /\ AbsentOrEmpty(src, obj0, i) /\ OthersFine(src, obj0, i))
        => /\ res.r.kind = "raise"
           /\ res.r.exc = "ValidationError"
           /\ res.r.msg = "required element " \o ElementName(src, i) \o " must be supplied"

\* C4: default substitution.  DCSchema.validate_internal returns, for an
\* element with declared default d that is absent from the input or empty
\* (the other elements being fine), an object whose field is exactly d.
C4_DefaultSubstituted ==
  (res.op = "validate" /\ src.dialect = "DC") =>
    \A i \in Indices(src) :
      (AnnOf(src, i).default # MISSING /\ AbsentOrEmpty(src, obj0, i)
         /\ OthersFine(src, obj0, i))
        => /\ res.r.kind = "ok"
           /\ res.r.val.attrs[ElementName(src, i)] = AnnOf(src, i).default

\* the number a value denotes for an element of type pt (int or float)
AsNumber(pt, x) == IF pt = "int" THEN int_of(x) ELSE float_of(x)

\* C5: type coercion.  Element validation of a numeric element returns the
\* number for a numeric value or a well-formed numeric string, and raises
\* ValidationError carrying the conversion error for a malformed string.
C5_TypeCoercion ==
  res.op = "element" =>
    LET pt == ElementType(src, IndexOf(src, res.name))
    IN  (pt \in {"int", "float"} /\ res.value.t \in {"int", "float", "str"}
           /\ res.value # PyStr(""))
          => IF AsNumber(pt, res.value).kind = "ok"
             THEN res.r.kind = "ok" /\ res.r.val = AsNumber(pt, res.value).val
             ELSE /\ res.r.kind = "raise" /\ res.r.exc = "ValidationError"
                  /\ res.r.orig = AsNumber(pt, res.value).exc

\* the source's names, those of the elements without default first, the
\* source's order kept in each group
StablePartition(schema) ==
  LET names == ElementNames(schema)
      with_default(n) == AnnOf(schema, IndexOf(schema, n)).default # MISSING
  IN  SelectSeq(names, LAMBDA n : ~with_default(n))
        \o SelectSeq(names, LAMBDA n : with_default(n))

\* C6: translation field ordering.  DCSchema.from_schema yields the
\* source's elements as a stable partition, those without a default (literal
\* or factory) first, and the shape constructor accepts that order.
C6_FieldOrdering ==
  (tgt.dialect = "DC" /\ tgt.r.kind # "none") =>
    /\ tgt.r.kind = "ok"
    /\ ElementNames(tgt.r.val) = StablePartition(src)

\* C7: translation preserves element names.  The schema from_schema
\* returns has exactly the element names of its source.
C7_NamesPreserved ==
  tgt.r.kind = "ok" => NameSet(tgt.r.val) = NameSet(src)

\* a translation of a schema of two elements into the other dialect returned
C7_Witness ==
  /\ tgt.r.kind = "ok"
  /\ tgt.dialect # src.dialect
  /\ Cardinality(NameSet(src)) = 2

\* the base type of pt is a key of the Marshmallow type table
InTable(pt) == PythonType_to_FieldType(BaseType(pt)) # "None"

\* C8: translation preserves type identity.  An element whose base type
\* is in the Marshmallow type table keeps its python type in
\* MMSchema.from_schema(source), and every element keeps it in
\* DCSchema.from_schema(source).
C8_TypeIdentity ==
  /\ (tgt.dialect = "MM" /\ tgt.r.kind # "none"
        /\ \A i \in Indices(src) : InTable(ElementType(src, i)))
       => /\ tgt.r.kind = "ok"
          /\ \A i \in Indices(src) :
                ElementType(tgt.r.val, IndexOf(tgt.r.val, ElementName(src, i)))
                  = ElementType(src, i)
  /\ (tgt.dialect = "DC" /\ tgt.r.kind = "ok")
       => \A i \in Indices(src) :
            ElementType(tgt.r.val, IndexOf(tgt.r.val, ElementName(src, i)))
              = ElementType(src, i)

\* the default the native field of a translated element holds
NativeDefault(schema, i) ==
  LET f == Elements(schema)[i]
  IN  IF schema.dialect = "MM" THEN f.missing
      ELSE IF f.default # DC_MISSING THEN f.default ELSE f.default_factory

\* the missing sentinel of a dialect
NativeMissing(dialect) == IF dialect = "MM" THEN MM_missing ELSE DC_MISSING

\* C9: translation preserves default/required semantics.  Every element of
\* the translated schema reports the required flag and the default of the
\* same-named source element; a source MISSING is the target's own missing
\* sentinel in the native field, and a null default stays null.
C9_DefaultRequiredPreserved ==
  tgt.r.kind = "ok" =>
    \A i \in Indices(src) :
      LET j == IndexOf(tgt.r.val, ElementName(src, i))
          a == AnnOf(src, i)
          b == AnnOf(tgt.r.val, j)
      IN  /\ b.required = a.required
          /\ b.default = a.default
          /\ a.default = MISSING
               => NativeDefault(tgt.r.val, j) = NativeMissing(tgt.dialect)
          /\ a.default = PyNone => NativeDefault(tgt.r.val, j) = PyNone

\* a translation into the other dialect returned, of a schema with an
\* element without default and an element whose default is None
C9_Witness ==
  /\ tgt.r.kind = "ok"
  /\ tgt.dialect # src.dialect
  /\ \E i \in Indices(src) : AnnOf(src, i).default = MISSING
  /\ \E i \in Indices(src) : AnnOf(src, i).default = PyNone

\* C10: the shape DCSchema.from_schema(S) materializes is constructed
\* without error from values for the required elements of S alone.
C10_OptionalOmittable ==
  res.op = "construct" => res.r.kind = "ok"

\* some element of the schema has a python type whose base type is not a
\* key of the Marshmallow type table
HasUnsupportedType(schema) ==
  \E i \in Indices(schema) : ~InTable(ElementType(schema, i))

\* C11: unsupported type in translation.  MMSchema.from_schema(source)
\* fails with the unsupported-type error (the ValueError of
\* from_schema_element) whenever an element's type has no entry in the type
\* table, and with no other exception on account of an element's type.
C11_UnsupportedType ==
  (tgt.dialect = "MM" /\ tgt.r.kind # "none") =>
    /\ HasUnsupportedType(src) =>
         /\ tgt.r.kind = "raise"
         /\ tgt.r.exc = "ValueError"
         /\ tgt.r.msg = "Cannot determine Marshmallow field"
    /\ tgt.r.kind = "raise" =>
         /\ tgt.r.exc = "ValueError"
         /\ tgt.r.msg = "Cannot determine Marshmallow field"
         /\ HasUnsupportedType(src)

\* the call is one the schema class does not support: the representation
\* is not in SupportedRepresentations, or a writer_callback or a callable
\* external is passed to a class without SupportsCallableIO
UnsupportedCall(dialect, call) ==
  \/ call.rep \notin SupportedRepresentations(dialect)
  \/ /\ ~SupportsCallableIO(dialect)
     /\ IF call.op = "to_external" THEN call.writer # <<>> ELSE call.callable

\* C12: unsupported representation is a precondition.  to_external and
\* from_external with an unsupported representation, or with a callback or
\* a callable source on a DCSchema, raise NotImplementedError and leave
\* the object and the schema as they were (nothing was validated).
C12_UnsupportedIsPrecondition ==
  [][(res'.op \in {"to_external", "from_external"} /\ pc = "object"
        /\ UnsupportedCall(src.dialect, res'))
       => /\ res'.r.kind = "raise"
          /\ res'.r.exc = "NotImplementedError"
          /\ obj' = obj
          /\ src' = src]_vars

\* a DCSchema refused json for an object holding the string "5" for an int
\* element, which validation would have replaced by 5
C12_Witness ==
  /\ res.op = "to_external"
  /\ src.dialect = "DC"
  /\ res.rep = "json"
  /\ res.r.kind = "raise"
  /\ res.r.exc = "NotImplementedError"
  /\ \E i \in Indices(src) :
       ElementType(src, i) = "int" /\ obj[ElementName(src, i)] = PyStr("5")

\* the result is a return, or a ValidationError that carries the error that
\* caused it (the required-element error has no cause)
ReturnedOrWrapped(r, schema) ==
  r.kind = "raise" =>
    /\ r.exc = "ValidationError"
    /\ \/ r.orig # ""
       \/ \E i \in Indices(schema) :
            r.msg = "required element " \o ElementName(schema, i) \o " must be supplied"

\* C13: conversion errors are always wrapped.  Every failure of
\* validate_internal, and of to_external and from_external with a supported
\* representation, of an MMSchema or a DCSchema reaches the caller as
\* ValidationError carrying the original error.
C13_ErrorsWrapped ==
  /\ res.op \in {"validate", "import_same"} => ReturnedOrWrapped(res.r, src)
  /\ res.op = "import_cross" => ReturnedOrWrapped(res.r, tgt.r.val)
  /\ pc = "exported" => ReturnedOrWrapped(ext, src)

\* the texts of the conversion errors
ConversionTexts ==
  {"invalid literal for int()", "int() argument must be a string or a number",
   "could not convert string to float", "float() argument must be a string or a number",
   "object is not iterable", "dictionary update sequence element has wrong length"}

\* the message names the element: it holds the name, after "required
\* element" or in front of or behind the text of a conversion error
NamesElement(msg, name) ==
  \/ msg = "required element " \o name \o " must be supplied"
  \/ \E t \in ConversionTexts :
       msg \in {name \o ": " \o t, t \o ": " \o name, t \o " (" \o name \o ")"}

\* C14: every ValidationError of element-level validation names the
\* offending element in its message, carries the underlying error as
\* original_error when a coercion failed, and carries none when a required
\* element is missing.
C14_ErrorNamesElement ==
  (res.op = "element" /\ res.r.kind = "raise") =>
    /\ res.r.exc = "ValidationError"
    /\ NamesElement(res.r.msg, res.name)
    /\ IF Truthy(res.value)
       THEN res.r.orig = Construct(BaseType(ElementType(src, IndexOf(src, res.name))),
                                   res.value).exc
       ELSE res.r.orig = ""

\* the schema a materialization was called on
MaterializedOn == IF res.on = "src" THEN src ELSE tgt.r.val

\* C15: MMSchema.from_schema(source) is bound to the shape the source is
\* bound to: its from_external and validate_internal return instances of
\* that shape, and plain mappings when the source is unbound.
C15_ShapeOfSource ==
  /\ (tgt.dialect = "MM" /\ tgt.r.kind = "ok") => tgt.r.val.objclass = src.objclass
  /\ (res.op \in {"from_external", "validate_internal"} /\ res.on = "tgt"
        /\ res.r.kind = "ok")
       => res.r.val.cls = IF src.objclass = NoShape THEN "dict" ELSE src.objclass.name

\* the translation of a DCSchema imported a mapping as an instance of the
\* dataclass
C15_Witness ==
  /\ res.op = "from_external"
  /\ res.on = "tgt"
  /\ src.dialect = "DC"
  /\ res.r.kind = "ok"
  /\ res.r.val.cls = "InventoryItem"

\* C16: object factory and materialization.  object_factory(d) is the
\* result of the constructor of the bound shape called with the entries of
\* d, and d itself when no shape is bound; what from_external and
\* validate_internal return is an instance of the bound shape, and a plain
\* mapping only when no shape is bound.
C16_ObjectFactory ==
  res.op \in MaterializeOps =>
    LET shape == MaterializedOn.objclass
    IN  /\ res.op = "object_factory" =>
             res.r = IF shape = NoShape THEN Ok(Obj("dict", res.data))
                     ELSE Instantiate(shape, res.data)
        /\ res.r.kind = "ok" =>
             res.r.val.cls = IF shape = NoShape THEN "dict" ELSE shape.name

\* a bound MMSchema loaded a mapping and returned an instance of its class
C16_Witness ==
  /\ res.op = "from_external"
  /\ res.on = "src"
  /\ src.objclass # NoShape
  /\ res.r.kind = "ok"
  /\ res.r.val.cls = "Person"

\* C17: MMSchema.to_external with a writer_callback invokes the callback
\* with the payload and returns None, whatever the callback returns;
\* without a writer_callback it returns the payload and invokes nothing.
C17_WriterCallback ==
  (res.op = "to_external" /\ src.dialect = "MM" /\ res.r.kind = "ok") =>
    IF res.writer # <<>>
    THEN /\ res.r.val = PyNone
         /\ res.calls = <<MMSchema_to_external(src, obj, res.rep, <<>>).val>>
    ELSE /\ res.calls = <<>>
         /\ res.r.val # PyNone

\* C18: add_element is unsupported.  On an MMSchema and on a DCSchema it
\* raises NotImplementedError for every element, and the schema's
\* elements, their names and the bound shape are as before the call.
C18_AddElementUnsupported ==
  [][res'.op = "add_element" /\ pc = "init"
       => /\ res'.r.kind = "raise"
          /\ res'.r.exc = "NotImplementedError"
          /\ Elements(src') = Elements(src)
          /\ ElementNames(src') = ElementNames(src)
          /\ src'.objclass = src.objclass]_vars

\* add_element was refused by an MMSchema of two elements
C18_Witness ==
  /\ res.op = "add_element"
  /\ src.dialect = "MM"
  /\ Len(Elements(src)) = 2
  /\ res.r.exc = "NotImplementedError"

\* C19: schema accessor caching.  The first __get_schema__ on a class with
\* an inner Schema instantiates it once; every later call returns that same
\* instance, whose __objclass__ is the class; a class without an inner
\* Schema makes the call raise ValueError.
C19_AccessorCached ==
  res.op = "get_schema" =>
    IF klass.Schema = <<>>
    THEN res.r.kind = "raise" /\ res.r.exc = "ValueError"
    ELSE /\ res.r.kind = "ok"
         /\ res.r.val.schema.objclass.name = klass.name
         /\ klass.made = 1
         /\ res.call > 1 => res.r.val.id = res.prev.val.id

\* no name occurs twice in the sequence
Unique(names) == \A i, j \in DOMAIN names : names[i] = names[j] => i = j

\* C20: iteration invariant.  Whatever operation is made on a schema
\* (get_annotation, validate_internal, to_external, from_external, use as
\* the source of from_schema), iterating it afterwards yields the same
\* element names in the same order as before, no name twice; the same
\* holds for the names of a schema from_schema returns.
C20_IterationStable ==
  [][/\ ElementNames(src') = ElementNames(src)
     /\ Unique(ElementNames(src'))
     /\ tgt'.r.kind = "ok" => Unique(ElementNames(tgt'.r.val))]_vars

\* a DCSchema of two elements was validated, exported, translated and
\* imported from, and holds the cached annotation of both elements
C20_Witness ==
  /\ res.op = "import_cross"
  /\ src.dialect = "DC"
  /\ Len(Elements(src)) = 2
  /\ \A i \in Indices(src) : Elements(src)[i].metadata.ann # <<>>

\* the element i of a schema as a caller can observe it: name, type, the
\* annotation's required and default, and the metadata mapping
Observed(schema, i) ==
  [name |-> ElementName(schema, i), type |-> ElementType(schema, i),
   required |-> AnnOf(schema, i).required, default |-> AnnOf(schema, i).default,
   metadata |-> Elements(schema)[i].metadata]

\* C21: translation is pure with respect to its source.  A call of
\* DCSchema.from_schema(source) or MMSchema.from_schema(source) leaves every
\* element of the source with the same name, type, required/default and
\* the same metadata mapping (no key added), and the source bound to the
\* same shape.
C21_TranslationPure ==
  [][tgt' # tgt =>
       /\ Len(Elements(src')) = Len(Elements(src))
       /\ \A i \in Indices(src) : Observed(src', i) = Observed(src, i)
       /\ src'.objclass.name = src.objclass.name
       /\ src'.objclass.kind = src.objclass.kind]_vars

\* C22: validation is pure with respect to its argument.  After
\* DCSchema.validate_internal(obj) or DCSchema.to_external(obj, python),
\* returned or raised, the object or mapping passed in holds for every
\* field the value it held before the call, and no further field.
C22_ArgumentUntouched ==
  (src.dialect = "DC" /\ (res.op = "validate" \/ ext.kind # "none")) => obj = obj0

\* every annotation the elements of a schema return: required implies
\* default = MISSING
AnnotationsSound(schema) ==
  \A i \in Indices(schema) :
    AnnOf(schema, i).required => AnnOf(schema, i).default = MISSING

\* C23: annotation invariant.  For every element of a declared DCSchema
\* or MMSchema, of a schema from_schema produced from it in either
\* dialect, and of a schema produced from that one, the annotation
\* get_annotation returns has default = MISSING whenever it has
\* required = true.
C23_AnnotationInvariant ==
  /\ AnnotationsSound(src)
  /\ tgt.r.kind = "ok" => AnnotationsSound(tgt.r.val)
  /\ (res.op = "from_schema" /\ res.r.kind = "ok") => AnnotationsSound(res.r.val)

\* a dataclass with a required element and one with a deferred default was
\* translated into marshmallow and back, and the required element is
\* required in all three schemas
C23_Witness ==
  /\ src.dialect = "DC" /\ tgt.dialect = "MM"
  /\ res.op = "from_schema" /\ res.dialect = "DC" /\ res.r.kind = "ok"
  /\ \E i \in Indices(src) : Elements(src)[i].default_factory # DC_MISSING
  /\ \E n \in NameSet(src) :
       /\ AnnOf(src, IndexOf(src, n)).required
       /\ AnnOf(tgt.r.val, IndexOf(tgt.r.val, n)).required
       /\ AnnOf(res.r.val, IndexOf(res.r.val, n)).required

\* the dataclasses field f carries the default of the annotation a as
\* from_schema_element is to place it
DefaultPlaced(a, f) ==
  IF a.default = MISSING
  THEN f.default = DC_MISSING /\ f.default_factory = DC_MISSING
  ELSE IF Callable(a.default)
  THEN f.default = DC_MISSING /\ f.default_factory = a.default
  ELSE f.default = a.default /\ f.default_factory = DC_MISSING

\* every field of the DCSchema target carries the default of the element
\* of the same name of source
DefaultsPlaced(source, target) ==
  \A n \in NameSet(target) :
    DefaultPlaced(AnnOf(source, IndexOf(source, n)),
                  Elements(target)[IndexOf(target, n)])

\* get_annotation of a field with a deferred default reports the factory
FactoryReported(schema) ==
  \A i \in Indices(schema) :
    Elements(schema)[i].default_factory # DC_MISSING =>
      AnnOf(schema, i).default = Elements(schema)[i].default_factory

\* C24: deferred defaults in translation.  DCSchemaElement
\* .from_schema_element turns an invokable source default into the target
\* field's default_factory and never its literal default, a non-invokable
\* one into the literal default and never the default_factory, and a
\* MISSING one into neither; get_annotation of a field with a
\* default_factory reports the factory as the default, so a field deferred
\* in a DCSchema is deferred in the DCSchema translated from it.
C24_DeferredDefaults ==
  /\ \A i \in Indices(src) :
       DefaultPlaced(AnnOf(src, i),
                     DCSchemaElement_from_schema_element(
                       AnnOf(src, i), ElementName(src, i), ElementType(src, i)))
  /\ (tgt.dialect = "DC" /\ tgt.r.kind = "ok") =>
       /\ DefaultsPlaced(src, tgt.r.val)
       /\ FactoryReported(tgt.r.val)
  /\ (res.op = "from_schema" /\ res.dialect = "DC" /\ res.r.kind = "ok") =>
       /\ DefaultsPlaced(tgt.r.val, res.r.val)
       /\ FactoryReported(res.r.val)
  /\ src.dialect = "DC" =>
       /\ FactoryReported(src)
       /\ (tgt.dialect = "DC" /\ tgt.r.kind = "ok") =>
            \A n \in NameSet(src) :
              Elements(src)[IndexOf(src, n)].default_factory # DC_MISSING =>
                /\ Elements(tgt.r.val)[IndexOf(tgt.r.val, n)].default_factory
                     = Elements(src)[IndexOf(src, n)].default_factory
                /\ Elements(tgt.r.val)[IndexOf(tgt.r.val, n)].default = DC_MISSING

\* a dataclass with a deferred and a literal default was translated into a
\* DCSchema and that one again: the deferred default is a default_factory
\* in both, the literal default a default
C24_Witness ==
  /\ src.dialect = "DC" /\ tgt.dialect = "DC" /\ tgt.r.kind = "ok"
  /\ res.op = "from_schema" /\ res.dialect = "DC" /\ res.r.kind = "ok"
  /\ \E i, j \in Indices(res.r.val) :
       /\ Elements(res.r.val)[i].default_factory = ListClass
       /\ Elements(res.r.val)[j].default = PyInt("5")
       /\ \E k \in Indices(src) :
            /\ ElementName(src, k) = ElementName(res.r.val, i)
            /\ Elements(src)[k].default_factory = ListClass

\* the fields of the shape are the synthesized elements, each once
SameElements(fields, synthesized) ==
  /\ Len(fields) = Len(synthesized)
  /\ \A i \in DOMAIN synthesized : \E j \in DOMAIN fields : fields[j] = synthesized[i]

\* the statements of from_schema, made one by one, end in what the whole
\* operation gives for the source as it was
StepsAgree ==
  pc \in {"bound", "done"} =>
    /\ tgt.r = DCSchema_from_schema(res.source).r
    /\ src = DCSchema_from_schema(res.source).source

\* the target is unbound while its elements are synthesized, bound only
\* after all of them, to a dataclass that has the name of the source (or
\* dc_<id> without one) and the synthesized elements as its fields
BoundAfterSynthesis ==
  /\ pc = "loop" => tgt.r.val.objclass = NoShape
  /\ pc \in {"bound", "done"} => Len(res.fields) = Len(Elements(src))
  /\ (pc \in {"bound", "done"} /\ tgt.r.kind = "ok") =>
       /\ tgt.r.val.objclass.kind = "dataclass"
       /\ tgt.r.val.objclass.name =
            (IF get_name(src) # "None" THEN get_name(src) ELSE "dc_id")
       /\ SameElements(tgt.r.val.objclass.fields, res.fields)
       /\ \A i \in Indices(src) :
            /\ res.fields[i].name = ElementName(src, i)
            /\ res.fields[i].type = ElementType(src, i)

\* C25: DCSchema.from_schema(source) creates the target unbound,
\* synthesizes all elements and only then binds it to a shape it makes,
\* named source.get_name() or else dc_<id>, whose fields are the translated
\* elements; every instance of the shape returns the new schema from its
\* get_schema accessor.
C25_BoundAccessor ==
  /\ BoundAfterSynthesis
  /\ res.op = "get_schema" => res.r = Ok(tgt.r.val)

\* names, types, required/default and the bound shape of schema t are
\* those of schema s
SameSchema(s, t) ==
  /\ ElementNames(t) = ElementNames(s)
  /\ \A i \in Indices(s) :
       /\ ElementType(t, i) = ElementType(s, i)
       /\ AnnOf(t, i).required = AnnOf(s, i).required
       /\ AnnOf(t, i).default = AnnOf(s, i).default
  /\ t.objclass.name = s.objclass.name
  /\ t.objclass.kind = s.objclass.kind
  /\ t.dialect = "DC" =>
       \A i \in Indices(s) :
         /\ Elements(t)[i].default = Elements(s)[i].default
         /\ Elements(t)[i].default_factory = Elements(s)[i].default_factory

\* C26: concurrent read-only use is safe.  In every interleaving of the
\* steps of iteration, validate_internal, to_external and from_external by
\* the callers of one bound schema, each with its own object, no step
\* changes the schema's element names, types, annotations' required and
\* default or its bound shape, and every caller that has finished holds
\* the result the same call gives with no other caller at work.
C26_ConcurrentReadOnly ==
  [][/\ SameSchema(src, src')
     /\ \A c \in Callers :
          callers'[c].pc = "done" => callers'[c].r = callers'[c].alone]_vars

\* both callers validated their objects of a dataclass at the same time:
\* each found the cache empty and computed the annotation itself, and one of
\* them got an object back
C26_Witness ==
  /\ src.dialect = "DC"
  /\ \A c \in Callers :
       /\ callers[c].pc = "done"
       /\ callers[c].op \in {"validate_internal", "to_external", "from_external"}
       /\ callers[c].computed
  /\ callers["a"].obj # callers["b"].obj
  /\ \E c \in Callers : callers[c].r.kind = "ok"

====
